---- MODULE Spec2Model ----
(***************************************************************************)
(* Model of the physical-property derivation of the optimizer              *)
(* (ChildPropertyDeriver.getOutputInputProps and its per-operator rules).  *)
(*                                                                         *)
(* A ChildPropertyDeriver object has two mutable fields, requirements and  *)
(* outputInputProps.  It reads three pieces of ambient state: the          *)
(* process-wide Config.disable_colocate_join, the session variables of the *)
(* caller's ConnectContext, and the catalog's colocate index.  One call of *)
(* getOutputInputProps is one action.                                      *)
(*                                                                         *)
(* The module also models the backend's ResultBufferMgr: the map of the    *)
(* control blocks, the map of the timed cancellations, the threads that    *)
(* call create_sender and the cancel thread.                               *)
(***************************************************************************)
EXTENDS Integers, Sequences, FiniteSets, TLC

VARIABLES
    requirements,           \* field ChildPropertyDeriver.requirements
    outputInputProps,       \* field ChildPropertyDeriver.outputInputProps
    taskContext,            \* field taskContext: the scan operators of the task
    groupExpression,        \* the group expression of the last call
    colocateIndex,          \* Catalog.getCurrentColocateIndex()
    disable_colocate_join,  \* Config.disable_colocate_join
    sessionVariable,        \* ConnectContext.get().getSessionVariable()
    status,                 \* "new", "returned" or "thrown": how the last call ended
    snapshot,               \* the ambient values the last call ran under
    calls,                  \* the calls made on the deriver, counted to MaxCalls
    threads,                \* the calls in progress: their arguments, position, result
    buffer_map,             \* field ResultBufferMgr::_buffer_map: query id -> control block
    timeout_map,            \* field ResultBufferMgr::_timeout_map: time -> query ids
    is_stop,                \* field ResultBufferMgr::_is_stop
    clock,                  \* time(NULL), in seconds
    blocks,                 \* the BufferControlBlock objects created so far
    registered              \* the cancel_at_time calls made: query id -> cancel time

vars == <<requirements, outputInputProps, taskContext, groupExpression,
          colocateIndex, disable_colocate_join, sessionVariable, status, snapshot,
          calls, threads, buffer_map, timeout_map, is_stop, clock, blocks,
          registered>>

\* the state of the backend's result buffer manager
mgrVars == <<buffer_map, timeout_map, is_stop, clock, blocks, registered>>

\* the state of the deriver and of what it reads
deriverVars == <<requirements, outputInputProps, taskContext, groupExpression,
                 colocateIndex, disable_colocate_join, sessionVariable, status,
                 snapshot, calls>>

(***************************************************************************)
(* Bounds of the model.                                                    *)
(***************************************************************************)
MaxLimit == 1
MaxConjuncts == 2
NumPartitions == 2
MaxAggStage == 1
MaxCalls == 2
MaxArity == 3
NumThreads == 2
NumQueries == 1
MaxTime == 2

(***************************************************************************)
(* java.util.List helpers (0-based indexOf, containsAll).                  *)
(***************************************************************************)
Range(s) == {s[i] : i \in 1..Len(s)}

ContainsAll(list, sub) == Range(sub) \subseteq Range(list)

IndexOf(list, x) ==
    IF \E i \in 1..Len(list) : list[i] = x
    THEN (CHOOSE i \in 1..Len(list) :
              list[i] = x /\ \A j \in 1..(i - 1) : list[j] # x) - 1
    ELSE -1

MapSeq(s, F(_)) == [i \in 1..Len(s) |-> F(s[i])]

(***************************************************************************)
(* Property model: DistributionSpec, SortProperty, PhysicalPropertySet.    *)
(***************************************************************************)
AnySpec == [type |-> "ANY", limit |-> -1, columns |-> <<>>, sourceType |-> "NONE"]

GatherSpec(limit) ==
    [type |-> "GATHER", limit |-> limit, columns |-> <<>>, sourceType |-> "NONE"]

ReplicatedSpec ==
    [type |-> "BROADCAST", limit |-> -1, columns |-> <<>>, sourceType |-> "NONE"]

HashSpec(columns, sourceType) ==
    [type |-> "SHUFFLE", limit |-> -1, columns |-> columns, sourceType |-> sourceType]

IsAny(d) == d.type = "ANY"
IsGather(d) == d.type = "GATHER"
IsReplicated(d) == d.type = "BROADCAST"
IsShuffle(d) == d.type = "SHUFFLE"
IsLocal(d) == d.type = "SHUFFLE" /\ d.sourceType = "LOCAL"

EmptySort == <<>>

PropertySet(distribution, sort) == [distribution |-> distribution, sort |-> sort]

EMPTY == PropertySet(AnySpec, EmptySort)

Pair(first, second) == [first |-> first, second |-> second]

\* createLimitGatherProperty(limit)
CreateLimitGatherProperty(limit) == PropertySet(GatherSpec(limit), EmptySort)

\* createPropertySetByDistribution(spec)
CreatePropertySetByDistribution(spec) == PropertySet(spec, EmptySort)

\* createLocalByByHashColumns(hashColumns)
CreateLocalByByHashColumns(hashColumns) == HashSpec(hashColumns, "LOCAL")

\* distributeRequirements(): the required distribution, the sort dropped
DistributeRequirements(req) == PropertySet(req.distribution, EmptySort)

\* getRequiredLocalDesc(): the Hash(LOCAL) descriptor of the requirement, if any
RequiredLocalPresent(req) ==
    IF ~IsShuffle(req.distribution) THEN FALSE
    ELSE IF req.distribution.sourceType # "LOCAL" THEN FALSE
    ELSE TRUE

(***************************************************************************)
(* JoinOperator, JoinPredicateUtils: the join type tests and the           *)
(* extraction of the equality conjuncts between the two children.  A       *)
(* conjunct is [type, lhs, rhs]; an operand is [usedColumns, isColumnRef]. *)
(***************************************************************************)
IsCrossJoin(joinType) == joinType = "CROSS_JOIN"
IsInnerJoin(joinType) == joinType = "INNER_JOIN"
IsRightJoin(joinType) == joinType = "RIGHT_OUTER_JOIN"
IsFullOuterJoin(joinType) == joinType = "FULL_OUTER_JOIN"

\* String.equalsIgnoreCase over the hints of the model
ToUpperCase(s) ==
    CASE s = "broadcast" -> "BROADCAST"
      [] OTHER -> s

EqualsIgnoreCase(a, b) == ToUpperCase(a) = ToUpperCase(b)

FirstId(columns) == CHOOSE c \in columns : \A d \in columns : c <= d

LeftToRight(p, leftColumns, rightColumns) ==
    /\ p.lhs.usedColumns \subseteq leftColumns
    /\ p.rhs.usedColumns \subseteq rightColumns

RightToLeft(p, leftColumns, rightColumns) ==
    /\ p.lhs.usedColumns \subseteq rightColumns
    /\ p.rhs.usedColumns \subseteq leftColumns

IsEqBetween(p, leftColumns, rightColumns) ==
    /\ p.type = "EQ"
    /\ \/ LeftToRight(p, leftColumns, rightColumns)
       \/ RightToLeft(p, leftColumns, rightColumns)

\* getEqConj(leftColumns, rightColumns, conjuncts)
GetEqConj(leftColumns, rightColumns, conjuncts) ==
    SelectSeq(conjuncts, LAMBDA p : IsEqBetween(p, leftColumns, rightColumns))

\* getJoinOnPredicatesColumns: the columns of each side, by predicate position
GetJoinOnPredicatesColumns(equalOnPredicate, leftColumns, rightColumns) ==
    [left |-> [i \in 1..Len(equalOnPredicate) |->
                 IF LeftToRight(equalOnPredicate[i], leftColumns, rightColumns)
                 THEN FirstId(equalOnPredicate[i].lhs.usedColumns)
                 ELSE FirstId(equalOnPredicate[i].rhs.usedColumns)],
     right |-> [i \in 1..Len(equalOnPredicate) |->
                 IF LeftToRight(equalOnPredicate[i], leftColumns, rightColumns)
                 THEN FirstId(equalOnPredicate[i].rhs.usedColumns)
                 ELSE FirstId(equalOnPredicate[i].lhs.usedColumns)]]

IsColumnToColumnBinaryPredicate(p) == p.lhs.isColumnRef /\ p.rhs.isColumnRef

(***************************************************************************)
(* ColocateTableIndex: table2Group maps a table id to its colocation group *)
(* ("none" when it has none), unstableGroups is the set of unstable groups.*)
(***************************************************************************)
IsColocateTable(index, tableId) == index.table2Group[tableId] # "none"

IsSameGroup(index, a, b) ==
    /\ index.table2Group[a] # "none"
    /\ index.table2Group[a] = index.table2Group[b]

GetGroup(index, tableId) == index.table2Group[tableId]

IsGroupUnstable(index, groupId) == groupId \in index.unstableGroups

(***************************************************************************)
(* The outcome of a rule: the alternatives accumulated, and the exception  *)
(* that ended it ("none" when it returned).                                *)
(***************************************************************************)
Returned(props) == [props |-> props, exception |-> "none"]

Thrown(props, exception) == [props |-> props, exception |-> exception]

(***************************************************************************)
(* findLogicalOlapScanOperator: the first scan of the task whose output    *)
(* columns hold every shuffle column.                                      *)
(***************************************************************************)
NoScan ==
    [tableId |-> "none", outputColumns |-> {}, distributionColumns |-> <<>>,
     selectedPartitionId |-> {}]

FindLogicalOlapScanOperator(shuffleColumns, scans) ==
    LET hits == {i \in 1..Len(scans) :
                    Range(shuffleColumns) \subseteq scans[i].outputColumns}
    IN IF hits = {}
       THEN [present |-> FALSE, scan |-> NoScan]
       ELSE [present |-> TRUE,
             scan |-> scans[CHOOSE i \in hits : \A j \in hits : i <= j]]

(***************************************************************************)
(* tryColocate                                                             *)
(***************************************************************************)
\* faulty variant: the session's flag is ignored
ColocateJoinDisabled_ConfigOnly(config, session) == config

\* the guard of tryColocate: the process flag or the session's flag
ColocateJoinDisabled(config, session) ==
    config \/ session.disableColocateJoin

\* join self: both scans select the same partitions, and at most one
SelfJoinPartitionsMatch(left, right) ==
    ~(\/ left.selectedPartitionId # right.selectedPartitionId
      \/ Cardinality(left.selectedPartitionId) > 1)

\* the loop over the scan's bucket columns: same position on both sides
PredicateOrderMatches(leftScanColumns, rightScanColumns, leftShuffle, rightShuffle) ==
    \A i \in 1..Len(leftScanColumns) :
        IndexOf(leftShuffle, leftScanColumns[i]) =
            IndexOf(rightShuffle, rightScanColumns[i])

\* faulty variant: the two children's requirements are exchanged
ColocateAlternative_Swapped(leftColumns, rightColumns) ==
    Pair(EMPTY,
         <<CreatePropertySetByDistribution(CreateLocalByByHashColumns(rightColumns)),
           CreatePropertySetByDistribution(CreateLocalByByHashColumns(leftColumns))>>)

\* faulty variant: the right child is required on the left columns
ColocateAlternative_LeftTwice(leftColumns, rightColumns) ==
    Pair(EMPTY,
         <<CreatePropertySetByDistribution(CreateLocalByByHashColumns(leftColumns)),
           CreatePropertySetByDistribution(CreateLocalByByHashColumns(leftColumns))>>)

ColocateAlternative(leftColumns, rightColumns) ==
    Pair(EMPTY,
         <<CreatePropertySetByDistribution(CreateLocalByByHashColumns(leftColumns)),
           CreatePropertySetByDistribution(CreateLocalByByHashColumns(rightColumns))>>)

TryColocate(props, leftShuffle, rightShuffle, scans, index, config, session) ==
    IF ColocateJoinDisabled(config, session) THEN Returned(props)
    ELSE
    LET leftTable == FindLogicalOlapScanOperator(leftShuffle, scans)
        rightTable == FindLogicalOlapScanOperator(rightShuffle, scans)
        left == leftTable.scan
        right == rightTable.scan
        leftScan == left.distributionColumns
        rightScan == right.distributionColumns
    IN
    IF ~leftTable.present THEN Returned(props)
    ELSE IF ~rightTable.present THEN Returned(props)
    ELSE IF /\ left.tableId = right.tableId
            /\ ~IsSameGroup(index, left.tableId, right.tableId)
    THEN IF ~SelfJoinPartitionsMatch(left, right) THEN Returned(props)
         ELSE Returned(Append(props, ColocateAlternative(leftShuffle, rightShuffle)))
    ELSE IF ~IsSameGroup(index, left.tableId, right.tableId) THEN Returned(props)
    ELSE IF IsGroupUnstable(index, GetGroup(index, left.tableId)) THEN Returned(props)
    ELSE IF Len(leftScan) # Len(rightScan)
         THEN Thrown(props, "IllegalStateException")
    ELSE IF ~ContainsAll(leftShuffle, leftScan) THEN Returned(props)
    ELSE IF ~ContainsAll(rightShuffle, rightScan) THEN Returned(props)
    ELSE IF ~PredicateOrderMatches(leftScan, rightScan, leftShuffle, rightShuffle)
         THEN Returned(props)
    ELSE Returned(Append(props, ColocateAlternative(leftScan, rightScan)))

(***************************************************************************)
(* tryBucketShuffle                                                        *)
(***************************************************************************)
\* faulty variant: the right columns are taken in the order of the predicate
RightBucketShuffleColumns_InOrder(leftScanColumns, leftShuffle, rightShuffle) ==
    [i \in 1..Len(leftScanColumns) |-> rightShuffle[i]]

\* the right column at the position of each bucket column of the left scan
RightBucketShuffleColumns(leftScanColumns, leftShuffle, rightShuffle) ==
    [i \in 1..Len(leftScanColumns) |->
        rightShuffle[IndexOf(leftShuffle, leftScanColumns[i]) + 1]]

BucketShuffleAlternative(leftLocalColumns, rightBucketShuffleColumns) ==
    Pair(EMPTY,
         <<CreatePropertySetByDistribution(CreateLocalByByHashColumns(leftLocalColumns)),
           CreatePropertySetByDistribution(
               HashSpec(rightBucketShuffleColumns, "SHUFFLE_JOIN"))>>)

\* faulty variant: bucket shuffle for any number of selected partitions
BucketShufflePartitionOk_Any(left) == Cardinality(left.selectedPartitionId) >= 0

\* Could only do bucket shuffle when partition size is 1
BucketShufflePartitionOk(left) == ~(Cardinality(left.selectedPartitionId) # 1)

TryBucketShuffle(props, joinType, leftShuffle, rightShuffle, scans) ==
    IF IsCrossJoin(joinType) THEN props
    ELSE
    LET leftTable == FindLogicalOlapScanOperator(leftShuffle, scans)
        left == leftTable.scan
        leftScan == left.distributionColumns
    IN
    IF ~leftTable.present THEN props
    ELSE IF ~BucketShufflePartitionOk(left) THEN props
    ELSE IF ~ContainsAll(leftShuffle, leftScan) THEN props
    ELSE Append(props,
                BucketShuffleAlternative(
                    leftScan,
                    RightBucketShuffleColumns(leftScan, leftShuffle, rightShuffle)))

(***************************************************************************)
(* visitJoinRequirements: the filter of the alternatives under a           *)
(* Hash(LOCAL) requirement.                                                *)
(***************************************************************************)
\* ColumnRefSet.contains(ColumnRefSet) of the required local columns
RequiredLocalColumnsFrom(childColumns, requiredColumns) ==
    Range(requiredColumns) \subseteq childColumns

\* faulty variant: the containment is tested the other way round
LocalWithin_Superset(child, requiredColumns) ==
    /\ child.distribution.sourceType = "LOCAL"
    /\ ContainsAll(child.distribution.columns, requiredColumns)

\* a LOCAL hash requirement of a child whose columns the requirement holds
LocalWithin(child, requiredColumns) ==
    /\ child.distribution.sourceType = "LOCAL"
    /\ ContainsAll(requiredColumns, child.distribution.columns)

\* the required columns come from the left child: which alternatives stay
KeepForLeft(alt, requiredColumns) ==
    LET left == alt.second[1]
    IN IF IsAny(left.distribution) THEN TRUE
       ELSE IF IsShuffle(left.distribution)
            THEN LocalWithin(left, requiredColumns)
            ELSE FALSE

\* faulty variant: the rewritten broadcast alternative loses the right child
RewriteForLeft_LeftOnly(alt, req) ==
    IF IsAny(alt.second[1].distribution)
    THEN Pair(DistributeRequirements(req), <<DistributeRequirements(req)>>)
    ELSE Pair(DistributeRequirements(req), alt.second)

RewriteForLeft(alt, req) ==
    IF IsAny(alt.second[1].distribution)
    THEN Pair(DistributeRequirements(req),
              <<DistributeRequirements(req), alt.second[2]>>)
    ELSE Pair(DistributeRequirements(req), alt.second)

\* faulty variant: a right child shuffled for the join is accepted as local
KeepForRight_AnyShuffle(alt, requiredColumns) ==
    LET right == alt.second[2]
    IN IF IsShuffle(right.distribution)
       THEN ContainsAll(requiredColumns, right.distribution.columns)
       ELSE FALSE

\* the required columns come from the right child: which alternatives stay
KeepForRight(alt, requiredColumns) ==
    LET right == alt.second[2]
    IN IF IsShuffle(right.distribution)
       THEN LocalWithin(right, requiredColumns)
       ELSE FALSE

RewriteForRight(alt, req) == Pair(DistributeRequirements(req), alt.second)

\* faulty variant: only columns of both children are refused
UnsupportedOrigin_BothOnly(fromLeft, fromRight) == fromLeft /\ fromRight

\* Not support local shuffle column appear on both sides at the same time
UnsupportedOrigin(fromLeft, fromRight) == fromLeft = fromRight

VisitJoinRequirements(req, props, leftChildColumns, rightChildColumns) ==
    IF ~RequiredLocalPresent(req) THEN props
    ELSE
    LET requiredColumns == req.distribution.columns
        fromLeft == RequiredLocalColumnsFrom(leftChildColumns, requiredColumns)
        fromRight == RequiredLocalColumnsFrom(rightChildColumns, requiredColumns)
    IN
    IF UnsupportedOrigin(fromLeft, fromRight) THEN <<>>
    ELSE IF fromLeft
    THEN MapSeq(SelectSeq(props, LAMBDA a : KeepForLeft(a, requiredColumns)),
                LAMBDA a : RewriteForLeft(a, req))
    ELSE MapSeq(SelectSeq(props, LAMBDA a : KeepForRight(a, requiredColumns)),
                LAMBDA a : RewriteForRight(a, req))

(***************************************************************************)
(* visitPhysicalHashJoin.  node is [joinType, joinHint, joinPredicate];    *)
(* children are the two child operators [hasLimit, limit, outputColumns].  *)
(***************************************************************************)
RightBroadcastProperty == PropertySet(ReplicatedSpec, EmptySort)

\* 1 For broadcast join: the left child gathers when it has a limit
BroadcastAlternative(leftChild, rightChild) ==
    IF leftChild.hasLimit \/ rightChild.hasLimit
    THEN IF leftChild.hasLimit
         THEN Pair(EMPTY, <<CreateLimitGatherProperty(leftChild.limit),
                            RightBroadcastProperty>>)
         ELSE Pair(EMPTY, <<PropertySet(AnySpec, EmptySort), RightBroadcastProperty>>)
    ELSE Pair(EMPTY, <<PropertySet(AnySpec, EmptySort), RightBroadcastProperty>>)

\* faulty variant: only the left child's limit is looked at
ChildHasLimit_LeftOnly(leftChild, rightChild) == leftChild.hasLimit

\* If child has limit, only do broadcast join
ChildHasLimit(leftChild, rightChild) == leftChild.hasLimit \/ rightChild.hasLimit

\* faulty variant: an inner join without equality conjuncts goes on to shuffle
OnlyBroadcast_NoInnerCase(node, equalOnPredicate) ==
    \/ IsCrossJoin(node.joinType)
    \/ node.joinType = "NULL_AWARE_LEFT_ANTI_JOIN"
    \/ EqualsIgnoreCase("BROADCAST", node.joinHint)

\* Cross join only support broadcast join
OnlyBroadcast(node, equalOnPredicate) ==
    \/ IsCrossJoin(node.joinType)
    \/ node.joinType = "NULL_AWARE_LEFT_ANTI_JOIN"
    \/ (IsInnerJoin(node.joinType) /\ equalOnPredicate = <<>>)
    \/ EqualsIgnoreCase("BROADCAST", node.joinHint)

\* faulty variant: only the SHUFFLE hint clears the broadcast alternative
DiscardBroadcast_HintOnly(node) == EqualsIgnoreCase("SHUFFLE", node.joinHint)

\* the joins that clear the broadcast alternative
DiscardBroadcast(node) ==
    \/ IsRightJoin(node.joinType)
    \/ IsFullOuterJoin(node.joinType)
    \/ EqualsIgnoreCase("SHUFFLE", node.joinHint)

\* faulty variant: both children shuffle on the left columns
ShuffleAlternative_LeftTwice(leftOnPredicateColumns, rightOnPredicateColumns) ==
    Pair(EMPTY,
         <<CreatePropertySetByDistribution(
               HashSpec(leftOnPredicateColumns, "SHUFFLE_JOIN")),
           CreatePropertySetByDistribution(
               HashSpec(leftOnPredicateColumns, "SHUFFLE_JOIN"))>>)

\* 2 For shuffle join
ShuffleAlternative(leftOnPredicateColumns, rightOnPredicateColumns) ==
    Pair(EMPTY,
         <<CreatePropertySetByDistribution(
               HashSpec(leftOnPredicateColumns, "SHUFFLE_JOIN")),
           CreatePropertySetByDistribution(
               HashSpec(rightOnPredicateColumns, "SHUFFLE_JOIN"))>>)

\* faulty variant: only the first equality conjunct is looked at
AnyNotColumnToColumn_FirstOnly(equalOnPredicate) ==
    /\ equalOnPredicate # <<>>
    /\ ~IsColumnToColumnBinaryPredicate(equalOnPredicate[1])

\* Colocate join and bucket shuffle join only support column to column predicates
AnyNotColumnToColumn(equalOnPredicate) ==
    \E i \in 1..Len(equalOnPredicate) :
        ~IsColumnToColumnBinaryPredicate(equalOnPredicate[i])

\* 3 For colocate join: not under a BUCKET hint
ColocateStepRuns(node) == ~EqualsIgnoreCase("BUCKET", node.joinHint)

VisitPhysicalHashJoin(req, node, children, scans, index, config, session) ==
    LET leftChild == children[1]
        rightChild == children[2]
        leftChildColumns == leftChild.outputColumns
        rightChildColumns == rightChild.outputColumns
        Resolve(props) ==
            VisitJoinRequirements(req, props, leftChildColumns, rightChildColumns)
        broadcast == <<BroadcastAlternative(leftChild, rightChild)>>
        equalOnPredicate ==
            GetEqConj(leftChildColumns, rightChildColumns, node.joinPredicate)
        kept == IF DiscardBroadcast(node) THEN <<>> ELSE broadcast
        on == GetJoinOnPredicatesColumns(equalOnPredicate, leftChildColumns,
                                         rightChildColumns)
        shuffled == Append(kept, ShuffleAlternative(on.left, on.right))
        colocated ==
            IF ColocateStepRuns(node)
            THEN TryColocate(shuffled, on.left, on.right, scans, index, config, session)
            ELSE Returned(shuffled)
        bucketed ==
            TryBucketShuffle(colocated.props, node.joinType, on.left, on.right, scans)
    IN
    IF ChildHasLimit(leftChild, rightChild) THEN Returned(Resolve(broadcast))
    ELSE IF OnlyBroadcast(node, equalOnPredicate) THEN Returned(Resolve(broadcast))
    ELSE IF Len(on.left) # Len(on.right)
         THEN Thrown(kept, "IllegalStateException")
    ELSE IF EqualsIgnoreCase("SHUFFLE", node.joinHint) THEN Returned(Resolve(shuffled))
    ELSE IF AnyNotColumnToColumn(equalOnPredicate) THEN Returned(Resolve(shuffled))
    ELSE IF colocated.exception # "none" THEN colocated
    ELSE Returned(Resolve(bucketed))

(***************************************************************************)
(* visitPhysicalHashAggregate and visitAggregateRequirements.  node is     *)
(* [type, isSplit, partitionByColumns]; child is the child operator;       *)
(* oneInstance is the root property's isExecuteInOneInstance().            *)
(***************************************************************************)
IsGlobal(aggType) == aggType = "GLOBAL"
IsLocalAgg(aggType) == aggType = "LOCAL"

\* the scan tablet sum is small: one phase local aggregate is enough
OneInstanceAggregate(node, oneInstance, session) ==
    /\ session.newPlannerAggStage = 0
    /\ oneInstance
    /\ IsGlobal(node.type) /\ ~node.isSplit

\* faulty variant: the limit branch is taken whatever the aggregate's phase
AggregateOverLimit_AnyPhase(node, child) == child.hasLimit

\* If child has limit, we need to gather data to one instance
AggregateOverLimit(node, child) ==
    child.hasLimit /\ (IsGlobal(node.type) /\ ~node.isSplit)

\* None grouping columns
GatherAlternative ==
    Pair(PropertySet(GatherSpec(-1), EmptySort), <<PropertySet(GatherSpec(-1), EmptySort)>>)

\* shuffle aggregation, then local aggregation
GroupingAlternatives(columns) ==
    <<Pair(PropertySet(HashSpec(columns, "SHUFFLE_AGG"), EmptySort),
           <<PropertySet(HashSpec(columns, "SHUFFLE_AGG"), EmptySort)>>),
      Pair(PropertySet(HashSpec(columns, "LOCAL"), EmptySort),
           <<PropertySet(HashSpec(columns, "LOCAL"), EmptySort)>>)>>

\* faulty variant: the required columns are not compared with the input's
KeepForAggregate_AnyLocal(alt, requiredColumns) ==
    LET input == alt.second[1]
    IN IF IsAny(input.distribution) THEN TRUE
       ELSE IF IsShuffle(input.distribution)
            THEN /\ alt.first.distribution.sourceType = "LOCAL"
                 /\ input.distribution.sourceType = "LOCAL"
            ELSE FALSE

KeepForAggregate(alt, requiredColumns) ==
    LET input == alt.second[1]
    IN IF IsAny(input.distribution) THEN TRUE
       ELSE IF IsShuffle(input.distribution)
            THEN /\ alt.first.distribution.sourceType = "LOCAL"
                 /\ input.distribution.sourceType = "LOCAL"
                 /\ ContainsAll(requiredColumns, input.distribution.columns)
            ELSE FALSE

RewriteForAggregate(alt, req) ==
    IF IsAny(alt.second[1].distribution)
    THEN Pair(DistributeRequirements(req), <<DistributeRequirements(req)>>)
    ELSE Pair(DistributeRequirements(req), alt.second)

VisitAggregateRequirements(req, props) ==
    IF ~RequiredLocalPresent(req) THEN props
    ELSE MapSeq(SelectSeq(props,
                          LAMBDA a : KeepForAggregate(a, req.distribution.columns)),
                LAMBDA a : RewriteForAggregate(a, req))

VisitPhysicalHashAggregate(req, node, child, oneInstance, session) ==
    IF OneInstanceAggregate(node, oneInstance, session)
    THEN VisitAggregateRequirements(req, <<Pair(EMPTY, <<EMPTY>>)>>)
    ELSE IF AggregateOverLimit(node, child)
    THEN VisitAggregateRequirements(
             req, <<Pair(EMPTY, <<CreateLimitGatherProperty(child.limit)>>)>>)
    ELSE IF ~IsLocalAgg(node.type)
    THEN IF node.partitionByColumns = <<>>
         THEN VisitAggregateRequirements(req, <<GatherAlternative>>)
         ELSE VisitAggregateRequirements(req, GroupingAlternatives(node.partitionByColumns))
    ELSE VisitAggregateRequirements(req, <<Pair(EMPTY, <<EMPTY>>)>>)

(***************************************************************************)
(* visitPhysicalProject, visitPhysicalRepeat, visitPhysicalFilter and      *)
(* visitPhysicalTableFunction: the operators that pass the requirement to  *)
(* their single child.                                                     *)
(***************************************************************************)
PassThroughAlternative(req) ==
    Pair(DistributeRequirements(req), <<DistributeRequirements(req)>>)

UnconstrainedAlternative == Pair(EMPTY, <<EMPTY>>)

\* faulty variant: the project rule stops after the first alternative
VisitPhysicalProject_OneAlternative(req) == <<PassThroughAlternative(req)>>

VisitPhysicalProject(req) ==
    IF RequiredLocalPresent(req)
    THEN <<PassThroughAlternative(req)>>
    ELSE <<PassThroughAlternative(req), UnconstrainedAlternative>>

VisitPhysicalRepeat(req) ==
    IF RequiredLocalPresent(req)
    THEN <<PassThroughAlternative(req)>>
    ELSE <<UnconstrainedAlternative>>

VisitPhysicalFilter(req) ==
    IF RequiredLocalPresent(req)
    THEN <<PassThroughAlternative(req)>>
    ELSE <<UnconstrainedAlternative>>

VisitPhysicalTableFunction(req) ==
    IF RequiredLocalPresent(req)
    THEN <<PassThroughAlternative(req)>>
    ELSE <<UnconstrainedAlternative>>

(***************************************************************************)
(* visitPhysicalOlapScan.  node is [tableId, distributionSpec,             *)
(* selectedPartitionId]; the alternatives of a leaf have no child          *)
(* requirement.                                                            *)
(***************************************************************************)
\* more than one partition of a table that is not a colocate table
DistributionUnknown(node, index) ==
    /\ Cardinality(node.selectedPartitionId) > 1
    /\ ~IsColocateTable(index, node.tableId)

ScanAlternative(node, index) ==
    IF DistributionUnknown(node, index)
    THEN Pair(EMPTY, <<>>)
    ELSE Pair(CreatePropertySetByDistribution(node.distributionSpec), <<>>)

\* faulty variant: the containment is tested the other way round
ScanWithinRequired_Superset(node, requiredColumns) ==
    ContainsAll(node.distributionSpec.columns, requiredColumns)

\* the required local columns hold every bucket column of the scan
ScanWithinRequired(node, requiredColumns) ==
    ContainsAll(requiredColumns, node.distributionSpec.columns)

VisitPhysicalOlapScan(req, node, index) ==
    IF ~RequiredLocalPresent(req) THEN <<ScanAlternative(node, index)>>
    ELSE IF ScanWithinRequired(node, req.distribution.columns)
         THEN <<Pair(DistributeRequirements(req), <<>>)>>
         ELSE <<>>

(***************************************************************************)
(* visitPhysicalTopN.  node is [sortPhase, isSplit, orderSpec].            *)
(***************************************************************************)
IsFinal(sortPhase) == sortPhase = "FINAL"

TopNOutputProperty(node) ==
    IF IsFinal(node.sortPhase)
    THEN IF node.isSplit
         THEN PropertySet(GatherSpec(-1), node.orderSpec)
         ELSE PropertySet(AnySpec, node.orderSpec)
    ELSE EMPTY

\* faulty variant: the child's limit is gathered below every final sort
TopNOverLimit_AnyFinal(node, child) == child.hasLimit /\ IsFinal(node.sortPhase)

\* If child has limit, we need to gather data to one instance
TopNOverLimit(node, child) ==
    child.hasLimit /\ (IsFinal(node.sortPhase) /\ ~node.isSplit)

VisitPhysicalTopN(req, node, child) ==
    IF RequiredLocalPresent(req) THEN <<>>
    ELSE IF TopNOverLimit(node, child)
    THEN <<Pair(TopNOutputProperty(node), <<CreateLimitGatherProperty(child.limit)>>)>>
    ELSE <<Pair(TopNOutputProperty(node), <<EMPTY>>)>>

(***************************************************************************)
(* The scans of external tables, and the assert-one-row operator.          *)
(***************************************************************************)
VisitPhysicalHiveScan(req) ==
    IF RequiredLocalPresent(req) THEN <<>> ELSE <<Pair(EMPTY, <<>>)>>

VisitPhysicalSchemaScan(req) ==
    IF RequiredLocalPresent(req) THEN <<>> ELSE <<Pair(EMPTY, <<>>)>>

VisitPhysicalMysqlScan(req) ==
    IF RequiredLocalPresent(req) THEN <<>> ELSE <<Pair(EMPTY, <<>>)>>

VisitPhysicalEsScan(req) ==
    IF RequiredLocalPresent(req) THEN <<>> ELSE <<Pair(EMPTY, <<>>)>>

VisitPhysicalAssertOneRow(req) ==
    IF RequiredLocalPresent(req) THEN <<>>
    ELSE <<Pair(EMPTY, <<PropertySet(GatherSpec(-1), EmptySort)>>)>>

(***************************************************************************)
(* visitPhysicalAnalytic.  node is [partitionExpressions, orderByElements]:*)
(* the partition expressions are column ids, the order-by elements are     *)
(* orderings [column, ascending, nullsFirst].                              *)
(***************************************************************************)
OrderingOf(column, ascending, nullsFirst) ==
    [column |-> column, ascending |-> ascending, nullsFirst |-> nullsFirst]

\* orderings.add(new Ordering((ColumnRefOperator) e, true, true))
PartitionOrderings(partitionExpressions) ==
    [i \in 1..Len(partitionExpressions) |->
        OrderingOf(partitionExpressions[i], TRUE, TRUE)]

\* faulty variant: every order-by element is added
AddOrderByElements_All(orderings, orderByElements) == orderings \o orderByElements

\* the order-by elements whose column no ordering added so far has
RECURSIVE AddOrderByElements(_, _)
AddOrderByElements(orderings, orderByElements) ==
    IF orderByElements = <<>> THEN orderings
    ELSE LET o == Head(orderByElements)
         IN AddOrderByElements(
                IF \A i \in 1..Len(orderings) : orderings[i].column # o.column
                THEN Append(orderings, o)
                ELSE orderings,
                Tail(orderByElements))

AnalyticSortProperty(node) ==
    AddOrderByElements(PartitionOrderings(node.partitionExpressions),
                       node.orderByElements)

\* faulty variant: the property is not required of the child
AnalyticAlternative_OutputOnly(distribution, sort) ==
    Pair(PropertySet(distribution, sort), <<EMPTY>>)

AnalyticAlternative(distribution, sort) ==
    Pair(PropertySet(distribution, sort), <<PropertySet(distribution, sort)>>)

VisitPhysicalAnalytic(req, node) ==
    LET partitionColumnRefSet == node.partitionExpressions
        sortProperty == AnalyticSortProperty(node)
    IN
    IF RequiredLocalPresent(req)
    THEN IF /\ partitionColumnRefSet # <<>>
            /\ ContainsAll(req.distribution.columns, partitionColumnRefSet)
         THEN <<AnalyticAlternative(HashSpec(partitionColumnRefSet, "LOCAL"),
                                    sortProperty)>>
         ELSE <<>>
    ELSE IF partitionColumnRefSet = <<>>
    THEN <<AnalyticAlternative(GatherSpec(-1), sortProperty)>>
    ELSE <<AnalyticAlternative(HashSpec(partitionColumnRefSet, "SHUFFLE_AGG"),
                               sortProperty),
           AnalyticAlternative(HashSpec(partitionColumnRefSet, "LOCAL"),
                               sortProperty)>>

(***************************************************************************)
(* visitPhysicalUnion, visitPhysicalExcept, visitPhysicalIntersect:        *)
(* processSetOperationChildProperty.  visitPhysicalValues.                 *)
(***************************************************************************)
\* faulty variant: the child's limit is not gathered
SetOperationChildProperty_NoGather(child) == EMPTY

\* If child has limit, we need to gather data to one instance
SetOperationChildProperty(child) ==
    IF child.hasLimit THEN CreateLimitGatherProperty(child.limit) ELSE EMPTY

ProcessSetOperationChildProperty(req, children) ==
    IF RequiredLocalPresent(req) THEN <<>>
    ELSE <<Pair(EMPTY,
                [i \in 1..Len(children) |-> SetOperationChildProperty(children[i])])>>

VisitPhysicalValues(req) == <<Pair(DistributeRequirements(req), <<>>)>>

(***************************************************************************)
(* getOutputInputProps: the dispatch on the operator of the group          *)
(* expression, on a fresh list of alternatives.                            *)
(***************************************************************************)
\* faulty variant: the list of the previous call is kept
NewArrayList_Stale(old) == old

\* outputInputProps = Lists.newArrayList()
NewArrayList(old) == <<>>

Accept(req, expr, scans, index, config, session) ==
    CASE expr.op.kind = "HashJoin" ->
             VisitPhysicalHashJoin(req, expr.op, expr.children, scans, index,
                                   config, session)
      [] expr.op.kind = "HashAggregate" ->
             Returned(VisitPhysicalHashAggregate(req, expr.op, expr.children[1],
                                                 expr.oneInstance, session))
      [] expr.op.kind = "Project" -> Returned(VisitPhysicalProject(req))
      [] expr.op.kind = "Repeat" -> Returned(VisitPhysicalRepeat(req))
      [] expr.op.kind = "Filter" -> Returned(VisitPhysicalFilter(req))
      [] expr.op.kind = "TableFunction" -> Returned(VisitPhysicalTableFunction(req))
      [] expr.op.kind = "OlapScan" ->
             Returned(VisitPhysicalOlapScan(req, expr.op, index))
      [] expr.op.kind = "TopN" ->
             Returned(VisitPhysicalTopN(req, expr.op, expr.children[1]))
      [] expr.op.kind = "HiveScan" -> Returned(VisitPhysicalHiveScan(req))
      [] expr.op.kind = "SchemaScan" -> Returned(VisitPhysicalSchemaScan(req))
      [] expr.op.kind = "MysqlScan" -> Returned(VisitPhysicalMysqlScan(req))
      [] expr.op.kind = "EsScan" -> Returned(VisitPhysicalEsScan(req))
      [] expr.op.kind = "AssertOneRow" -> Returned(VisitPhysicalAssertOneRow(req))
      [] expr.op.kind = "Analytic" -> Returned(VisitPhysicalAnalytic(req, expr.op))
      [] expr.op.kind \in {"Union", "Except", "Intersect"} ->
             Returned(ProcessSetOperationChildProperty(req, expr.children))
      [] expr.op.kind = "Values" -> Returned(VisitPhysicalValues(req))
      [] OTHER -> Returned(<<>>)

Call(req, expr) ==
    LET r == Accept(req, expr, taskContext.allScanOperators, colocateIndex,
                    disable_colocate_join, sessionVariable)
    IN /\ requirements' = req
       /\ groupExpression' = expr
       /\ outputInputProps' = NewArrayList(outputInputProps) \o r.props
       /\ status' = IF r.exception = "none" THEN "returned" ELSE "thrown"
       /\ snapshot' = [disable_colocate_join |-> disable_colocate_join,
                       sessionVariable |-> sessionVariable]
       /\ calls' = IF calls < MaxCalls THEN calls + 1 ELSE calls
       /\ UNCHANGED <<taskContext, colocateIndex, disable_colocate_join,
                      sessionVariable, threads>>
       /\ UNCHANGED mgrVars

(***************************************************************************)
(* The inputs of the model: required properties, operators, plan views,    *)
(* colocation metadata.  The left child outputs columns 1 and 2, the right *)
(* child columns 3 and 4.                                                  *)
(***************************************************************************)
LeftColumns == {1, 2}
RightColumns == {3, 4}

Null == [null |-> TRUE]

Ordering(column) == [column |-> column, ascending |-> TRUE, nullsFirst |-> TRUE]

LocalRequirement(columns) == PropertySet(HashSpec(columns, "LOCAL"), EmptySort)

NonLocalRequirements ==
    {EMPTY,
     PropertySet(GatherSpec(-1), <<Ordering(1)>>),
     PropertySet(HashSpec(<<1>>, "SHUFFLE_AGG"), EmptySort)}

LocalRequirements ==
    {LocalRequirement(c) :
        c \in {<<>>, <<1>>, <<1, 2>>, <<3>>, <<3, 4>>, <<1, 3>>}}

Requirements == NonLocalRequirements \cup LocalRequirements

NoLimitChild(columns) == [hasLimit |-> FALSE, limit |-> -1, outputColumns |-> columns]

Children(columns) ==
    {NoLimitChild(columns)} \cup
    {[hasLimit |-> TRUE, limit |-> l, outputColumns |-> columns] : l \in 1..MaxLimit}

Col(c) == [usedColumns |-> {c}, isColumnRef |-> TRUE]
Expr(c) == [usedColumns |-> {c}, isColumnRef |-> FALSE]
Conjunct(type, lhs, rhs) == [type |-> type, lhs |-> lhs, rhs |-> rhs]

\* 1 = 3, 4 = 2 (right side first), f(2) = 4, 1 < 3
ColumnConjuncts == {Conjunct("EQ", Col(1), Col(3)), Conjunct("EQ", Col(4), Col(2))}

Conjuncts ==
    ColumnConjuncts \cup
    {Conjunct("EQ", Expr(2), Col(4)), Conjunct("LT", Col(1), Col(3))}

\* the conjunct lists without repetition, up to MaxConjuncts long
PredicatesOver(conjuncts) ==
    UNION {{p \in [1..n -> conjuncts] : \A i, j \in 1..n : p[i] = p[j] => i = j} :
              n \in 0..MaxConjuncts}

Predicates == PredicatesOver(Conjuncts)

JoinTypes ==
    {"INNER_JOIN", "LEFT_OUTER_JOIN", "RIGHT_OUTER_JOIN", "FULL_OUTER_JOIN",
     "CROSS_JOIN", "NULL_AWARE_LEFT_ANTI_JOIN"}

Hints == {"", "broadcast", "SHUFFLE", "BUCKET"}

HashJoin(joinType, joinHint, joinPredicate, left, right) ==
    [op |-> [kind |-> "HashJoin", joinType |-> joinType, joinHint |-> joinHint,
             joinPredicate |-> joinPredicate],
     children |-> <<left, right>>]

\* every join type, hint, predicate and child limit
FrontJoins ==
    {HashJoin(t, h, p, l, r) :
        t \in JoinTypes, h \in Hints, p \in Predicates,
        l \in Children(LeftColumns), r \in Children(RightColumns)}

\* the joins that reach the colocate and bucket-shuffle steps
ScanJoins ==
    {HashJoin(t, h, p, NoLimitChild(LeftColumns), NoLimitChild(RightColumns)) :
        t \in {"INNER_JOIN", "LEFT_OUTER_JOIN", "RIGHT_OUTER_JOIN"},
        h \in {"", "BUCKET"},
        p \in PredicatesOver(ColumnConjuncts)}

(***************************************************************************)
(* Scans and colocation metadata.  Scan A (table tA) outputs the left      *)
(* columns, scan B (table tB, or tA again in a self join) the right ones.  *)
(* Tables of one colocation group have the same number of bucket columns;  *)
(* the two scans of a self join have the same bucket columns, position by  *)
(* position.                                                               *)
(***************************************************************************)
Partitions == SUBSET (1..NumPartitions)

Scan(tableId, outputColumns, distributionColumns, selectedPartitionId) ==
    [tableId |-> tableId, outputColumns |-> outputColumns,
     distributionColumns |-> distributionColumns,
     selectedPartitionId |-> selectedPartitionId]

Index(groupA, groupB, unstableGroups) ==
    [table2Group |-> [t \in {"tA", "tB"} |-> IF t = "tA" THEN groupA ELSE groupB],
     unstableGroups |-> unstableGroups]

PlanView(scans, index) == [allScanOperators |-> scans, index |-> index]

LeftBuckets == {<<1>>, <<1, 2>>}

RightBucketsFor(leftBucket) ==
    IF Len(leftBucket) = 1 THEN {<<3>>} ELSE {<<3, 4>>, <<4, 3>>}

\* tA and tB in one stable group, bucketed on 1 and 3, one partition selected
DefaultView ==
    PlanView(<<Scan("tA", LeftColumns, <<1>>, {1}), Scan("tB", RightColumns, <<3>>, {1})>>,
             Index("g1", "g1", {}))

\* two tables with no colocation relationship
UnrelatedViews ==
    {PlanView(<<Scan("tA", LeftColumns, a, pa), Scan("tB", RightColumns, <<3>>, pb)>>,
              Index(g[1], g[2], {})) :
        a \in LeftBuckets, pa \in Partitions, pb \in {{}, {1}},
        g \in {<<"none", "none">>, <<"g1", "none">>, <<"g1", "g2">>}}

\* two tables of one colocation group, stable or not
GroupViews ==
    UNION {{PlanView(<<Scan("tA", LeftColumns, a, pa), Scan("tB", RightColumns, b, {1})>>,
                     Index("g1", "g1", u)) :
               b \in RightBucketsFor(a)} :
           a \in LeftBuckets, pa \in Partitions, u \in {{}, {"g1"}}}

\* a self join of table tA, in a colocation group or not
SelfViews ==
    {PlanView(<<Scan("tA", LeftColumns, a, pa),
                Scan("tA", RightColumns, [i \in 1..Len(a) |-> a[i] + 2], pb)>>,
              Index(g, "none", {})) :
        a \in LeftBuckets, pa \in Partitions, pb \in Partitions, g \in {"none", "g1"}}

\* a child that is no base-table scan
PartialViews ==
    {PlanView(s, Index("none", "none", {})) :
        s \in {<<>>, <<Scan("tA", LeftColumns, <<1>>, {1})>>,
               <<Scan("tB", RightColumns, <<3>>, {1})>>}}

PlanViews == {DefaultView} \cup UnrelatedViews \cup GroupViews \cup SelfViews
                 \cup PartialViews

JoinsOf(view) == IF view = DefaultView THEN FrontJoins \cup ScanJoins ELSE ScanJoins

(***************************************************************************)
(* The derivation of a join: a new deriver of a task is called once.       *)
(***************************************************************************)
SessionVariables ==
    {[disableColocateJoin |-> b, newPlannerAggStage |-> a] :
        b \in BOOLEAN, a \in 0..MaxAggStage}

DefaultSession == [disableColocateJoin |-> FALSE, newPlannerAggStage |-> 0]

\* ResultBufferMgr::ResultBufferMgr(): no control block, no timeout, not stopped
NewResultBufferMgr ==
    /\ buffer_map = <<>>
    /\ timeout_map = <<>>
    /\ is_stop = FALSE
    /\ clock = 0
    /\ blocks = <<>>
    /\ registered = <<>>

\* a deriver just constructed: no call yet
NewDeriver ==
    /\ NewResultBufferMgr
    /\ requirements = Null
    /\ groupExpression = Null
    /\ outputInputProps = <<>>
    /\ status = "new"
    /\ snapshot = Null
    /\ calls = 0
    /\ threads = <<>>

Init ==
    /\ \E view \in PlanViews :
          /\ taskContext = [allScanOperators |-> view.allScanOperators]
          /\ colocateIndex = view.index
    /\ disable_colocate_join \in BOOLEAN
    /\ \E b \in BOOLEAN :
          sessionVariable = [DefaultSession EXCEPT !.disableColocateJoin = b]
    /\ NewDeriver

DeriveJoin ==
    /\ status = "new"
    /\ \E req \in Requirements :
          \E expr \in JoinsOf(PlanView(taskContext.allScanOperators, colocateIndex)) :
              Call(req, expr)

Next == DeriveJoin

Spec == Init /\ [][Next]_vars

(***************************************************************************)
(* The derivation of a hash aggregate.                                     *)
(***************************************************************************)
HashAggregate(type, isSplit, partitionByColumns, child, oneInstance) ==
    [op |-> [kind |-> "HashAggregate", type |-> type, isSplit |-> isSplit,
             partitionByColumns |-> partitionByColumns],
     children |-> <<child>>,
     oneInstance |-> oneInstance]

Aggregates ==
    {HashAggregate(t, s, g, c, o) :
        t \in {"GLOBAL", "LOCAL", "DISTINCT_GLOBAL"}, s \in BOOLEAN,
        g \in {<<>>, <<1>>, <<1, 2>>}, c \in Children(LeftColumns), o \in BOOLEAN}

InitAgg ==
    /\ taskContext = [allScanOperators |-> DefaultView.allScanOperators]
    /\ colocateIndex = DefaultView.index
    /\ disable_colocate_join = FALSE
    /\ sessionVariable \in SessionVariables
    /\ NewDeriver

DeriveAggregate ==
    /\ status = "new"
    /\ \E req \in Requirements : \E expr \in Aggregates : Call(req, expr)

NextAgg == DeriveAggregate

SpecAgg == InitAgg /\ [][NextAgg]_vars

(***************************************************************************)
(* One deriver called again with the arguments of its last call, while the *)
(* process-wide Config.disable_colocate_join and the session variables of  *)
(* the caller's ConnectContext change between the calls.                   *)
(***************************************************************************)
RecallViews ==
    {DefaultView} \cup
    {v \in SelfViews \cup UnrelatedViews :
        \A i \in 1..Len(v.allScanOperators) :
            /\ v.allScanOperators[i].selectedPartitionId = {1}
            /\ Len(v.allScanOperators[i].distributionColumns) = 1}

RecallExpressions(view) ==
    IF view = DefaultView THEN ScanJoins \cup Aggregates ELSE ScanJoins

InitRecall ==
    /\ \E view \in RecallViews :
          /\ taskContext = [allScanOperators |-> view.allScanOperators]
          /\ colocateIndex = view.index
    /\ disable_colocate_join = FALSE
    /\ sessionVariable = DefaultSession
    /\ NewDeriver

DeriveFirst ==
    /\ status = "new"
    /\ \E req \in Requirements :
          \E expr \in RecallExpressions(PlanView(taskContext.allScanOperators,
                                                 colocateIndex)) :
              Call(req, expr)

DeriveAgain ==
    /\ status # "new"
    /\ calls < MaxCalls
    /\ Call(requirements, groupExpression)

\* Config.disable_colocate_join is mutable and process-wide
SetConfig ==
    /\ calls < MaxCalls
    /\ disable_colocate_join' = ~disable_colocate_join
    /\ UNCHANGED <<requirements, outputInputProps, taskContext, groupExpression,
                   colocateIndex, sessionVariable, status, snapshot, calls, threads>>
    /\ UNCHANGED mgrVars

\* the session variables of the thread's ConnectContext
SetSessionVariable ==
    /\ calls < MaxCalls
    /\ \E session \in SessionVariables :
          /\ session # sessionVariable
          /\ sessionVariable' = session
    /\ UNCHANGED <<requirements, outputInputProps, taskContext, groupExpression,
                   colocateIndex, disable_colocate_join, status, snapshot, calls,
                   threads>>
    /\ UNCHANGED mgrVars

NextRecall ==
    \/ DeriveFirst
    \/ DeriveAgain
    \/ SetConfig
    \/ SetSessionVariable

SpecRecall == InitRecall /\ [][NextRecall]_vars

(***************************************************************************)
(* One call on an operator of any kind: the pass-through operators, the    *)
(* scans, TopN, analytic, the set operations, values, assert-one-row, and  *)
(* the joins and aggregates over the default plan view.                    *)
(***************************************************************************)
\* a local requirement that also carries a sort
SortedLocalRequirement == PropertySet(HashSpec(<<1, 2>>, "LOCAL"), <<Ordering(2)>>)

OperatorRequirements == Requirements \cup {SortedLocalRequirement}

Operator(kind, children) == [op |-> [kind |-> kind], children |-> children]

PassThroughs ==
    {Operator(k, <<c>>) :
        k \in {"Project", "Repeat", "Filter", "TableFunction"},
        c \in Children(LeftColumns)}

Leaves ==
    {Operator(k, <<>>) : k \in {"HiveScan", "SchemaScan", "MysqlScan", "EsScan", "Values"}}
    \cup {Operator("AssertOneRow", <<c>>) : c \in Children(LeftColumns)}

\* the bucket distribution of an olap table
OlapScan(tableId, bucketColumns, selectedPartitionId) ==
    [op |-> [kind |-> "OlapScan", tableId |-> tableId,
             distributionSpec |-> HashSpec(bucketColumns, "LOCAL"),
             selectedPartitionId |-> selectedPartitionId],
     children |-> <<>>]

OlapScans ==
    {OlapScan(t, b, p) :
        t \in {"tA", "tB"}, b \in {<<1>>, <<1, 2>>, <<2, 1>>}, p \in Partitions}

OrderSpecs ==
    {<<>>, <<OrderingOf(1, FALSE, FALSE)>>, <<Ordering(2)>>,
     <<Ordering(2), OrderingOf(1, FALSE, FALSE)>>,
     <<Ordering(2), OrderingOf(2, FALSE, TRUE)>>}

TopN(sortPhase, isSplit, orderSpec, child) ==
    [op |-> [kind |-> "TopN", sortPhase |-> sortPhase, isSplit |-> isSplit,
             orderSpec |-> orderSpec],
     children |-> <<child>>]

TopNs ==
    {TopN(ph, sp, o, c) :
        ph \in {"PARTIAL", "FINAL"}, sp \in BOOLEAN,
        o \in OrderSpecs \ {<<>>}, c \in Children(LeftColumns)}

Analytic(partitionExpressions, orderByElements, child) ==
    [op |-> [kind |-> "Analytic", partitionExpressions |-> partitionExpressions,
             orderByElements |-> orderByElements],
     children |-> <<child>>]

Analytics ==
    {Analytic(pe, o, NoLimitChild(LeftColumns)) :
        pe \in {<<>>, <<1>>, <<2, 1>>, <<1, 1>>}, o \in OrderSpecs}

SetOperations ==
    {[op |-> [kind |-> k], children |-> cs] :
        k \in {"Union", "Except", "Intersect"},
        cs \in UNION {[1..n -> Children(LeftColumns)] : n \in 2..MaxArity}}

\* tA in colocation group g1, or in no group
OperatorIndexes == {Index("g1", "g1", {}), Index("g1", "none", {}), Index("none", "none", {})}

InitOps ==
    /\ taskContext = [allScanOperators |-> DefaultView.allScanOperators]
    /\ colocateIndex \in OperatorIndexes
    /\ disable_colocate_join = FALSE
    /\ sessionVariable \in SessionVariables
    /\ NewDeriver

DerivePassThrough ==
    /\ status = "new"
    /\ \E req \in OperatorRequirements : \E expr \in PassThroughs : Call(req, expr)

DeriveLeaf ==
    /\ status = "new"
    /\ \E req \in OperatorRequirements : \E expr \in Leaves : Call(req, expr)

DeriveOlapScan ==
    /\ status = "new"
    /\ \E req \in OperatorRequirements : \E expr \in OlapScans : Call(req, expr)

DeriveTopN ==
    /\ status = "new"
    /\ \E req \in OperatorRequirements : \E expr \in TopNs : Call(req, expr)

DeriveAnalytic ==
    /\ status = "new"
    /\ \E req \in OperatorRequirements : \E expr \in Analytics : Call(req, expr)

DeriveSetOperation ==
    /\ status = "new"
    /\ \E req \in OperatorRequirements : \E expr \in SetOperations : Call(req, expr)

DeriveScanJoin ==
    /\ status = "new"
    /\ \E req \in OperatorRequirements : \E expr \in ScanJoins : Call(req, expr)

DeriveGrouping ==
    /\ status = "new"
    /\ \E req \in OperatorRequirements : \E expr \in Aggregates : Call(req, expr)

NextOps ==
    \/ DerivePassThrough
    \/ DeriveLeaf
    \/ DeriveOlapScan
    \/ DeriveTopN
    \/ DeriveAnalytic
    \/ DeriveSetOperation
    \/ DeriveScanJoin
    \/ DeriveGrouping

SpecOps == InitOps /\ [][NextOps]_vars

(***************************************************************************)
(* Calls of getOutputInputProps in progress at the same time on one        *)
(* deriver, statement by statement (lines 88, 90, 91, 92).  The fields     *)
(* requirements and outputInputProps belong to the deriver, not to a call. *)
(* The operators are those whose visit only appends to the list, so the    *)
(* visit of line 91, taken as one step, appends what the rule derives from *)
(* the field requirements.                                                 *)
(***************************************************************************)
ConcurrentRequirements ==
    {EMPTY, PropertySet(HashSpec(<<1>>, "SHUFFLE_AGG"), EmptySort), LocalRequirement(<<1>>)}

ConcurrentOperators ==
    {Operator("Project", <<NoLimitChild(LeftColumns)>>),
     Operator("Filter", <<NoLimitChild(LeftColumns)>>),
     Operator("Values", <<>>)}

InitConcurrent ==
    /\ taskContext = [allScanOperators |-> DefaultView.allScanOperators]
    /\ colocateIndex = DefaultView.index
    /\ disable_colocate_join = FALSE
    /\ sessionVariable = DefaultSession
    /\ requirements = Null
    /\ groupExpression = Null
    /\ outputInputProps = <<>>
    /\ status = "new"
    /\ snapshot = Null
    /\ calls = 0
    /\ NewResultBufferMgr
    /\ threads = [t \in 1..NumThreads |->
                     [pc |-> "idle", requirements |-> Null, groupExpression |-> Null,
                      result |-> Null]]

UnchangedByThread ==
    /\ UNCHANGED <<taskContext, groupExpression, colocateIndex,
                    disable_colocate_join, sessionVariable, status, snapshot, calls>>
    /\ UNCHANGED mgrVars

\* a caller enters getOutputInputProps(requirements, groupExpression)
Enter(t) ==
    /\ threads[t].pc = "idle"
    /\ \E req \in ConcurrentRequirements : \E expr \in ConcurrentOperators :
          threads' = [threads EXCEPT ![t] = [pc |-> "line88", requirements |-> req,
                                             groupExpression |-> expr,
                                             result |-> Null]]
    /\ UNCHANGED <<requirements, outputInputProps>>
    /\ UnchangedByThread

\* this.requirements = requirements
AssignRequirements(t) ==
    /\ threads[t].pc = "line88"
    /\ requirements' = threads[t].requirements
    /\ threads' = [threads EXCEPT ![t].pc = "line90"]
    /\ UNCHANGED outputInputProps
    /\ UnchangedByThread

\* outputInputProps = Lists.newArrayList()
AssignNewList(t) ==
    /\ threads[t].pc = "line90"
    /\ outputInputProps' = NewArrayList(outputInputProps)
    /\ threads' = [threads EXCEPT ![t].pc = "line91"]
    /\ UNCHANGED requirements
    /\ UnchangedByThread

\* groupExpression.getOp().accept(this, ...)
AcceptVisitor(t) ==
    /\ threads[t].pc = "line91"
    /\ outputInputProps' =
           outputInputProps \o
           Accept(requirements, threads[t].groupExpression,
                  taskContext.allScanOperators, colocateIndex,
                  disable_colocate_join, sessionVariable).props
    /\ threads' = [threads EXCEPT ![t].pc = "line92"]
    /\ UNCHANGED requirements
    /\ UnchangedByThread

\* return outputInputProps
ReturnList(t) ==
    /\ threads[t].pc = "line92"
    /\ threads' = [threads EXCEPT ![t].pc = "done", ![t].result = outputInputProps]
    /\ UNCHANGED <<requirements, outputInputProps>>
    /\ UnchangedByThread

NextConcurrent ==
    \E t \in 1..NumThreads :
        \/ Enter(t)
        \/ AssignRequirements(t)
        \/ AssignNewList(t)
        \/ AcceptVisitor(t)
        \/ ReturnList(t)

SpecConcurrent == InitConcurrent /\ [][NextConcurrent]_vars

(***************************************************************************)
(* The derivation of a join over a catalog whose colocation group g1 holds *)
(* tables tA and tB whatever their numbers of bucket columns are: the      *)
(* deriver reads the group and the bucket columns from the catalog and     *)
(* does not control what the catalog holds.                                *)
(***************************************************************************)
CatalogViews ==
    {PlanView(<<Scan("tA", LeftColumns, a, pa), Scan("tB", RightColumns, b, {1})>>,
              Index("g1", "g1", u)) :
        a \in LeftBuckets, b \in {<<3>>, <<3, 4>>}, pa \in Partitions,
        u \in {{}, {"g1"}}}

InitCatalog ==
    /\ \E view \in CatalogViews :
          /\ taskContext = [allScanOperators |-> view.allScanOperators]
          /\ colocateIndex = view.index
    /\ disable_colocate_join \in BOOLEAN
    /\ sessionVariable = DefaultSession
    /\ NewDeriver

DeriveCatalogJoin ==
    /\ status = "new"
    /\ \E req \in Requirements : \E expr \in ScanJoins : Call(req, expr)

NextCatalog == DeriveCatalogJoin

SpecCatalog == InitCatalog /\ [][NextCatalog]_vars

(***************************************************************************)
(* ResultBufferMgr.  A control block is named by its position in blocks;   *)
(* NullBlock is the empty shared_ptr.  NumThreads threads call             *)
(* create_sender once each; the cancel thread runs cancel_thread(); the    *)
(* other operations are called by the rest of the backend.  The clock      *)
(* counts seconds up to MaxTime.                                           *)
(***************************************************************************)
QueryIds == 1..NumQueries
Times == 0..MaxTime
NullBlock == 0

\* new BufferControlBlock(query_id, buffer_size)
BufferControlBlock(query_id) ==
    [query_id |-> query_id, is_cancelled |-> FALSE, cancelled_at |-> -1]

\* find_control_block, under _lock
find_control_block(query_id) ==
    IF query_id \in DOMAIN buffer_map THEN buffer_map[query_id] ELSE NullBlock

\* std::map::insert: the pair is added unless the key is present
MapInsert(map, key, value) ==
    IF key \in DOMAIN map THEN map
    ELSE [k \in DOMAIN map \cup {key} |-> IF k = key THEN value ELSE map[k]]

\* std::map::erase of a set of keys
MapErase(map, keys) == [k \in DOMAIN map \ keys |-> map[k]]

\* the query ids of the entries before end, in the order of the keys
RECURSIVE QueriesUpTo(_, _)
QueriesUpTo(map, keys) ==
    IF keys = {} THEN <<>>
    ELSE LET first == CHOOSE k \in keys : \A j \in keys : k <= j
         IN map[first] \o QueriesUpTo(map, keys \ {first})

\* _timeout_map.begin() up to _timeout_map.upper_bound(now_time + 1)
ExpiredKeys(map, now_time) == {k \in DOMAIN map : ~(k > now_time + 1)}

InitBuffer ==
    /\ taskContext = [allScanOperators |-> <<>>]
    /\ colocateIndex = DefaultView.index
    /\ disable_colocate_join = FALSE
    /\ sessionVariable = DefaultSession
    /\ requirements = Null
    /\ groupExpression = Null
    /\ outputInputProps = <<>>
    /\ status = "new"
    /\ snapshot = Null
    /\ calls = 0
    /\ NewResultBufferMgr
    /\ threads = [senders |-> [t \in 1..NumThreads |->
                                  [pc |-> "idle", query_id |-> 0, sender |-> NullBlock]],
                  cancel_thread |-> [pc |-> "line139", now_time |-> 0,
                                     query_to_cancel |-> <<>>, wake |-> 0],
                  fetch |-> Null]

\* create_sender, lines 60-64: the lookup, and the return when a block is found
create_sender_find(t) ==
    /\ ~is_stop
    /\ threads.senders[t].pc = "idle"
    /\ \E query_id \in QueryIds :
          LET found == find_control_block(query_id)
          IN threads' = [threads EXCEPT !.senders[t] =
                            [pc |-> IF found # NullBlock THEN "done" ELSE "line66",
                             query_id |-> query_id, sender |-> found]]
    /\ UNCHANGED mgrVars
    /\ UNCHANGED deriverVars

\* create_sender, lines 66-72: a new block, inserted under _lock and returned
create_sender_insert(t) ==
    /\ threads.senders[t].pc = "line66"
    /\ LET query_id == threads.senders[t].query_id
           control_block == Len(blocks) + 1
       IN /\ blocks' = Append(blocks, BufferControlBlock(query_id))
          /\ buffer_map' = MapInsert(buffer_map, query_id, control_block)
          /\ threads' = [threads EXCEPT !.senders[t].pc = "done",
                                        !.senders[t].sender = control_block]
    /\ UNCHANGED <<timeout_map, is_stop, clock, registered>>
    /\ UNCHANGED deriverVars

\* fetch_data: the status the caller gets
fetch_data ==
    /\ ~is_stop
    /\ \E query_id \in QueryIds :
          LET cb == find_control_block(query_id)
              result == [query_id |-> query_id, at |-> clock,
                         status |-> IF cb = NullBlock
                                    THEN "no result for this query."
                                    ELSE "get_batch"]
          IN /\ threads.fetch # result
             /\ threads' = [threads EXCEPT !.fetch = result]
    /\ UNCHANGED mgrVars
    /\ UNCHANGED deriverVars

\* cancel(query_id), under _lock: the block is cancelled and erased
cancel(query_id) ==
    IF query_id \in DOMAIN buffer_map
    THEN /\ blocks' = [blocks EXCEPT ![buffer_map[query_id]].is_cancelled = TRUE,
                                     ![buffer_map[query_id]].cancelled_at = clock]
         /\ buffer_map' = MapErase(buffer_map, {query_id})
    ELSE UNCHANGED <<blocks, buffer_map>>

\* cancel_at_time(cancel_time, query_id), once for a query id
cancel_at_time ==
    /\ ~is_stop
    /\ \E cancel_time \in Times : \E query_id \in QueryIds \ DOMAIN registered :
          /\ timeout_map' =
                 [k \in DOMAIN timeout_map \cup {cancel_time} |->
                     IF k \in DOMAIN timeout_map /\ k # cancel_time
                     THEN timeout_map[k]
                     ELSE Append(IF k \in DOMAIN timeout_map THEN timeout_map[k] ELSE <<>>,
                                 query_id)]
          /\ registered' = MapInsert(registered, query_id, cancel_time)
    /\ UNCHANGED <<buffer_map, is_stop, clock, blocks, threads>>
    /\ UNCHANGED deriverVars

\* cancel_thread, line 139: while (!_is_stop)
cancel_thread_test ==
    /\ threads.cancel_thread.pc = "line139"
    /\ threads' = [threads EXCEPT !.cancel_thread.pc =
                      IF is_stop THEN "finish" ELSE "line142"]
    /\ UNCHANGED mgrVars
    /\ UNCHANGED deriverVars

\* cancel_thread, line 142: now_time = time(NULL)
cancel_thread_time ==
    /\ threads.cancel_thread.pc = "line142"
    /\ threads' = [threads EXCEPT !.cancel_thread.pc = "line144",
                                  !.cancel_thread.now_time = clock]
    /\ UNCHANGED mgrVars
    /\ UNCHANGED deriverVars

\* cancel_thread, lines 143-154: the expired entries, taken under _timeout_lock
cancel_thread_get_query ==
    /\ threads.cancel_thread.pc = "line144"
    /\ LET end == ExpiredKeys(timeout_map, threads.cancel_thread.now_time)
       IN /\ threads' = [threads EXCEPT
                            !.cancel_thread.pc = "line157",
                            !.cancel_thread.query_to_cancel = QueriesUpTo(timeout_map, end)]
          /\ timeout_map' = MapErase(timeout_map, end)
    /\ UNCHANGED <<buffer_map, is_stop, clock, blocks, registered>>
    /\ UNCHANGED deriverVars

\* cancel_thread, lines 157-159: cancel(query_to_cancel[i])
cancel_thread_cancel ==
    /\ threads.cancel_thread.pc = "line157"
    /\ threads.cancel_thread.query_to_cancel # <<>>
    /\ cancel(Head(threads.cancel_thread.query_to_cancel))
    /\ threads' = [threads EXCEPT !.cancel_thread.query_to_cancel =
                      Tail(threads.cancel_thread.query_to_cancel)]
    /\ UNCHANGED <<timeout_map, is_stop, clock, registered>>
    /\ UNCHANGED deriverVars

\* cancel_thread, line 161: sleep(1) begins
cancel_thread_sleep ==
    /\ threads.cancel_thread.pc = "line157"
    /\ threads.cancel_thread.query_to_cancel = <<>>
    /\ threads' = [threads EXCEPT !.cancel_thread.pc = "line161",
                                  !.cancel_thread.wake = clock + 1]
    /\ UNCHANGED mgrVars
    /\ UNCHANGED deriverVars

\* sleep(1) returns once a second has passed (or the clock is at its bound)
cancel_thread_wake ==
    /\ threads.cancel_thread.pc = "line161"
    /\ clock >= threads.cancel_thread.wake \/ clock = MaxTime
    /\ threads' = [threads EXCEPT !.cancel_thread.pc = "line139"]
    /\ UNCHANGED mgrVars
    /\ UNCHANGED deriverVars

\* ~ResultBufferMgr(): _is_stop = true
stop ==
    /\ ~is_stop
    /\ is_stop' = TRUE
    /\ UNCHANGED <<buffer_map, timeout_map, clock, blocks, registered, threads>>
    /\ UNCHANGED deriverVars

\* a second passes
Tick ==
    /\ clock < MaxTime
    /\ clock' = clock + 1
    /\ UNCHANGED <<buffer_map, timeout_map, is_stop, blocks, registered, threads>>
    /\ UNCHANGED deriverVars

NextBuffer ==
    \/ \E t \in 1..NumThreads : create_sender_find(t)
    \/ \E t \in 1..NumThreads : create_sender_insert(t)
    \/ fetch_data
    \/ cancel_at_time
    \/ cancel_thread_test
    \/ cancel_thread_time
    \/ cancel_thread_get_query
    \/ cancel_thread_cancel
    \/ cancel_thread_sleep
    \/ cancel_thread_wake
    \/ stop
    \/ Tick

SpecBuffer == InitBuffer /\ [][NextBuffer]_vars

(***************************************************************************)
(* Vocabulary of the properties below: the arguments and the result of the *)
(* last call.                                                              *)
(***************************************************************************)
JoinCalled == status # "new" /\ groupExpression.op.kind = "HashJoin"
AggregateCalled == status # "new" /\ groupExpression.op.kind = "HashAggregate"
LeftChild == groupExpression.children[1]
RightChild == groupExpression.children[2]
JoinType == groupExpression.op.joinType
HintIs(h) == ToUpperCase(groupExpression.op.joinHint) = h
NoChildLimit == ~LeftChild.hasLimit /\ ~RightChild.hasLimit
LocalRequired == IsLocal(requirements.distribution)
RequiredColumns == Range(requirements.distribution.columns)
EqualityConjuncts ==
    GetEqConj(LeftChild.outputColumns, RightChild.outputColumns,
              groupExpression.op.joinPredicate)
OnColumns ==
    GetJoinOnPredicatesColumns(EqualityConjuncts, LeftChild.outputColumns,
                               RightChild.outputColumns)
AllColumnToColumn ==
    \A i \in 1..Len(EqualityConjuncts) :
        EqualityConjuncts[i].lhs.isColumnRef /\ EqualityConjuncts[i].rhs.isColumnRef
ColocateEnabledAtCall ==
    /\ ~snapshot.disable_colocate_join
    /\ ~snapshot.sessionVariable.disableColocateJoin

HashOn(columns, sourceType) == PropertySet(HashSpec(columns, sourceType), EmptySort)
Replicated == PropertySet(ReplicatedSpec, EmptySort)
Gather == PropertySet(GatherSpec(-1), EmptySort)
Broadcast == Pair(EMPTY, <<EMPTY, Replicated>>)
Shuffle(left, right) ==
    Pair(EMPTY, <<HashOn(left, "SHUFFLE_JOIN"), HashOn(right, "SHUFFLE_JOIN")>>)
Colocate(left, right) == Pair(EMPTY, <<HashOn(left, "LOCAL"), HashOn(right, "LOCAL")>>)
BucketShuffle(left, right) ==
    Pair(EMPTY, <<HashOn(left, "LOCAL"), HashOn(right, "SHUFFLE_JOIN")>>)

\* the task joins scan A of table tA with scan B of table tB
ScansOfTwoTables(leftBucket, rightBucket) ==
    LET scans == taskContext.allScanOperators
    IN /\ Len(scans) = 2
       /\ scans[1].tableId = "tA" /\ scans[1].distributionColumns = leftBucket
       /\ scans[2].tableId = "tB" /\ scans[2].distributionColumns = rightBucket
LeftPartitions == Cardinality(taskContext.allScanOperators[1].selectedPartitionId)
SameStableGroup ==
    /\ colocateIndex.table2Group["tA"] # "none"
    /\ colocateIndex.table2Group["tA"] = colocateIndex.table2Group["tB"]
    /\ colocateIndex.table2Group["tA"] \notin colocateIndex.unstableGroups
NoColocation ==
    \/ colocateIndex.table2Group["tA"] = "none"
    \/ colocateIndex.table2Group["tA"] # colocateIndex.table2Group["tB"]

\* the place of an alternative in the order broadcast, shuffle, colocate, bucket-shuffle
Rank(alt) ==
    LET l == alt.second[1].distribution
        r == alt.second[2].distribution
    IN CASE r.type = "BROADCAST" -> 1
         [] l.sourceType = "SHUFFLE_JOIN" /\ r.sourceType = "SHUFFLE_JOIN" -> 2
         [] l.sourceType = "LOCAL" /\ r.sourceType = "LOCAL" -> 3
         [] l.sourceType = "LOCAL" /\ r.sourceType = "SHUFFLE_JOIN" -> 4
         [] OTHER -> 0
InFixedOrder(props) ==
    \A i, j \in 1..Len(props) :
        i < j => (Rank(props[i]) > 0 /\ Rank(props[i]) < Rank(props[j]))

(***************************************************************************)
(* C1: a join with a child limit, under a requirement that is not local,   *)
(* returns exactly one alternative: output EMPTY, right child Replicated,  *)
(* left child Gather(limit) when the left child has the limit and Any when *)
(* only the right child has one; whatever the join type, predicate, hint.  *)
(***************************************************************************)
C1_LimitOnlyBroadcast ==
    (JoinCalled /\ ~LocalRequired) =>
        /\ LeftChild.hasLimit =>
              /\ status = "returned"
              /\ outputInputProps =
                     <<Pair(EMPTY, <<PropertySet(GatherSpec(LeftChild.limit), EmptySort),
                                     Replicated>>)>>
        /\ (~LeftChild.hasLimit /\ RightChild.hasLimit) =>
              /\ status = "returned"
              /\ outputInputProps = <<Broadcast>>

C1_Witness ==
    /\ JoinCalled /\ ~LocalRequired
    /\ LeftChild.hasLimit
    /\ JoinType = "RIGHT_OUTER_JOIN" /\ HintIs("SHUFFLE")
    /\ EqualityConjuncts # <<>>
    /\ Len(outputInputProps) = 1

(***************************************************************************)
(* C2 as claimed: a join of any type without equality conjuncts, a cross   *)
(* join, or a join with a BROADCAST hint returns exactly one alternative,  *)
(* whose right child is Replicated.                                        *)
(***************************************************************************)
C2_Original ==
    (/\ JoinCalled
     /\ \/ EqualityConjuncts = <<>>
        \/ JoinType = "CROSS_JOIN"
        \/ HintIs("BROADCAST")) =>
        /\ status = "returned"
        /\ Len(outputInputProps) = 1
        /\ IsReplicated(outputInputProps[1].second[2].distribution)

(***************************************************************************)
(* C2 amended: an inner join without equality conjuncts, a cross join, or  *)
(* a join with a BROADCAST hint returns, under a requirement that is not   *)
(* local, exactly one alternative whose right child is Replicated; under a *)
(* local requirement it returns at most one, its right child Replicated.   *)
(***************************************************************************)
C2_BroadcastOnly ==
    (/\ JoinCalled
     /\ \/ (JoinType = "INNER_JOIN" /\ EqualityConjuncts = <<>>)
        \/ JoinType = "CROSS_JOIN"
        \/ HintIs("BROADCAST")) =>
        /\ status = "returned"
        /\ Len(outputInputProps) <= 1
        /\ ~LocalRequired => Len(outputInputProps) = 1
        /\ \A i \in 1..Len(outputInputProps) :
              IsReplicated(outputInputProps[i].second[2].distribution)

C2_Witness ==
    /\ JoinCalled /\ ~LocalRequired /\ NoChildLimit
    /\ JoinType = "INNER_JOIN" /\ HintIs("")
    /\ groupExpression.op.joinPredicate # <<>>
    /\ EqualityConjuncts = <<>>
    /\ outputInputProps = <<Broadcast>>

(***************************************************************************)
(* C3: an inner join with an equality conjunct, no hint, no child limit,   *)
(* under a requirement that is not local, returns at least two             *)
(* alternatives: the first is the broadcast one, a later one requires      *)
(* Hash(ShuffleJoin) on both children over column lists of equal length,   *)
(* the k-th columns those of the k-th equality conjunct.                   *)
(***************************************************************************)
C3_InnerJoinShuffle ==
    (/\ JoinCalled /\ ~LocalRequired /\ NoChildLimit
     /\ JoinType = "INNER_JOIN" /\ HintIs("")
     /\ EqualityConjuncts # <<>>) =>
        /\ status = "returned"
        /\ Len(outputInputProps) >= 2
        /\ outputInputProps[1] = Broadcast
        /\ \E i \in 2..Len(outputInputProps) :
              LET l == outputInputProps[i].second[1].distribution
                  r == outputInputProps[i].second[2].distribution
              IN /\ outputInputProps[i].first = EMPTY
                 /\ IsShuffle(l) /\ l.sourceType = "SHUFFLE_JOIN"
                 /\ IsShuffle(r) /\ r.sourceType = "SHUFFLE_JOIN"
                 /\ Len(l.columns) = Len(r.columns)
                 /\ Len(l.columns) = Len(EqualityConjuncts)
                 /\ \A k \in 1..Len(EqualityConjuncts) :
                       LET used == EqualityConjuncts[k].lhs.usedColumns \cup
                                   EqualityConjuncts[k].rhs.usedColumns
                       IN /\ l.columns[k] \in used \cap LeftChild.outputColumns
                          /\ r.columns[k] \in used \cap RightChild.outputColumns

C3_Witness ==
    /\ JoinCalled /\ ~LocalRequired /\ NoChildLimit
    /\ JoinType = "INNER_JOIN" /\ HintIs("")
    /\ Len(EqualityConjuncts) = 2
    /\ outputInputProps[2] = Shuffle(<<2, 1>>, <<4, 3>>)

(***************************************************************************)
(* C4 as claimed: joining scan A (bucketed on a1) with scan B (bucketed on *)
(* b1) on a1 = b1, with no hint, no limits, no colocation relationship and *)
(* no local requirement, returns exactly [broadcast, shuffle on a1/b1],    *)
(* for every number of selected partitions.                                *)
(***************************************************************************)
C4_Case ==
    /\ JoinCalled /\ ~LocalRequired /\ NoChildLimit /\ HintIs("")
    /\ ScansOfTwoTables(<<1>>, <<3>>)
    /\ NoColocation
    /\ groupExpression.op.joinPredicate = <<Conjunct("EQ", Col(1), Col(3))>>

C4_Original ==
    C4_Case =>
        /\ status = "returned"
        /\ outputInputProps = <<Broadcast, Shuffle(<<1>>, <<3>>)>>

(***************************************************************************)
(* C4 amended: for an inner or left outer join the result is exactly       *)
(* [broadcast, shuffle on a1/b1] when the number of selected partitions of *)
(* A is not one; with exactly one selected partition the bucket-shuffle    *)
(* alternative (Hash(Local,[a1]), Hash(ShuffleJoin,[b1])) follows them.    *)
(***************************************************************************)
C4_BroadcastAndShuffle ==
    (C4_Case /\ JoinType \in {"INNER_JOIN", "LEFT_OUTER_JOIN"}) =>
        /\ status = "returned"
        /\ outputInputProps =
               IF LeftPartitions = 1
               THEN <<Broadcast, Shuffle(<<1>>, <<3>>), BucketShuffle(<<1>>, <<3>>)>>
               ELSE <<Broadcast, Shuffle(<<1>>, <<3>>)>>

C4_Witness ==
    /\ C4_Case /\ JoinType = "INNER_JOIN"
    /\ LeftPartitions = 2
    /\ outputInputProps = <<Broadcast, Shuffle(<<1>>, <<3>>)>>

(***************************************************************************)
(* C5 as claimed: joining two different tables of one stable colocation    *)
(* group, bucketed on a1 and b1 at matching positions of the shuffle       *)
(* column lists, with colocate join enabled, no hint, no limit, no local   *)
(* requirement, returns a list containing (Hash(Local,[a1]),               *)
(* Hash(Local,[b1])), its alternatives in the order broadcast, shuffle,    *)
(* colocate, bucket-shuffle.                                               *)
(***************************************************************************)
C5_Case ==
    /\ JoinCalled /\ ~LocalRequired /\ NoChildLimit /\ HintIs("")
    /\ ScansOfTwoTables(<<1>>, <<3>>)
    /\ SameStableGroup
    /\ ColocateEnabledAtCall
    /\ IndexOf(OnColumns.left, 1) >= 0
    /\ IndexOf(OnColumns.left, 1) = IndexOf(OnColumns.right, 3)

C5_Holds ==
    /\ status = "returned"
    /\ \E i \in 1..Len(outputInputProps) : outputInputProps[i] = Colocate(<<1>>, <<3>>)
    /\ InFixedOrder(outputInputProps)

C5_Original == C5_Case => C5_Holds

(***************************************************************************)
(* C5 amended: the same, for a join that is neither a cross join nor a     *)
(* null-aware left anti join and whose equality conjuncts all compare a    *)
(* column with a column.                                                   *)
(***************************************************************************)
C5_ColocateAlternative ==
    (/\ C5_Case
     /\ JoinType \notin {"CROSS_JOIN", "NULL_AWARE_LEFT_ANTI_JOIN"}
     /\ AllColumnToColumn) => C5_Holds

C5_Witness ==
    /\ C5_Case /\ JoinType = "INNER_JOIN" /\ AllColumnToColumn
    /\ outputInputProps = <<Broadcast, Shuffle(<<1>>, <<3>>), Colocate(<<1>>, <<3>>),
                            BucketShuffle(<<1>>, <<3>>)>>

(***************************************************************************)
(* C8 as claimed: under an active requirement Hash(Local, R) whose columns *)
(* come from exactly one child, every alternative returned requires of     *)
(* that child a Hash distribution whose columns are a superset of R.       *)
(***************************************************************************)
RequiredFromLeft == RequiredColumns \subseteq LeftChild.outputColumns
RequiredFromRight == RequiredColumns \subseteq RightChild.outputColumns
C8_Case ==
    /\ JoinCalled /\ status = "returned" /\ LocalRequired
    /\ RequiredFromLeft # RequiredFromRight
QualifyingSide(alt) == alt.second[IF RequiredFromLeft THEN 1 ELSE 2].distribution

C8_Original ==
    C8_Case =>
        \A i \in 1..Len(outputInputProps) :
            /\ IsShuffle(QualifyingSide(outputInputProps[i]))
            /\ RequiredColumns \subseteq Range(QualifyingSide(outputInputProps[i]).columns)

(***************************************************************************)
(* C8 amended: every alternative returned requires of that child           *)
(* Hash(Local, cols) with cols a subset of R (exactly R where the child's  *)
(* requirement was Any and has been replaced).                             *)
(***************************************************************************)
C8_LocalFilter ==
    C8_Case =>
        \A i \in 1..Len(outputInputProps) :
            /\ IsLocal(QualifyingSide(outputInputProps[i]))
            /\ Range(QualifyingSide(outputInputProps[i]).columns) \subseteq RequiredColumns

C8_Witness ==
    /\ C8_Case
    /\ requirements.distribution.columns = <<1, 2>>
    /\ \E i \in 1..Len(outputInputProps) :
          outputInputProps[i].second[1].distribution.columns = <<1>>
    /\ \E i \in 1..Len(outputInputProps) :
          outputInputProps[i].second[1].distribution.columns = <<1, 2>>

(***************************************************************************)
(* C9: under an active requirement Hash(Local, R) whose columns come from  *)
(* both children, or from neither, the join returns the empty list.        *)
(***************************************************************************)
C9_UnsupportedLocal ==
    (JoinCalled /\ LocalRequired /\ RequiredFromLeft = RequiredFromRight) =>
        /\ status = "returned"
        /\ outputInputProps = <<>>

C9_Witness ==
    /\ JoinCalled /\ LocalRequired
    /\ requirements.distribution.columns = <<1, 3>>
    /\ ~RequiredFromLeft /\ ~RequiredFromRight
    /\ NoChildLimit /\ EqualityConjuncts # <<>>
    /\ outputInputProps = <<>>

(***************************************************************************)
(* C6: for every join, required property, plan view and metadata, the      *)
(* result with colocate join disabled (by the Config flag or the session   *)
(* flag) is the result with it enabled without the colocate alternative    *)
(* (both children Hash(Local)); the other alternatives are the same, in    *)
(* the same relative order.  Stated over two successive calls of the same  *)
(* arguments, one run with colocate join enabled and one with it disabled. *)
(***************************************************************************)
DisabledAt(env) == env.disable_colocate_join \/ env.sessionVariable.disableColocateJoin
IsColocateAlternative(alt) ==
    /\ IsLocal(alt.second[1].distribution)
    /\ IsLocal(alt.second[2].distribution)
WithoutColocate(props) == SelectSeq(props, LAMBDA a : ~IsColocateAlternative(a))
SameJoinAgain ==
    /\ JoinCalled /\ status = "returned" /\ status' = "returned"
    /\ calls' = calls + 1
    /\ requirements' = requirements /\ groupExpression' = groupExpression
    /\ taskContext' = taskContext /\ colocateIndex' = colocateIndex

C6_DisableRemovesColocate ==
    [][SameJoinAgain =>
          /\ (~DisabledAt(snapshot) /\ DisabledAt(snapshot')) =>
                 outputInputProps' = WithoutColocate(outputInputProps)
          /\ (DisabledAt(snapshot) /\ ~DisabledAt(snapshot')) =>
                 outputInputProps = WithoutColocate(outputInputProps')]_vars

C6_Witness ==
    /\ JoinCalled /\ status = "returned" /\ calls = 2
    /\ ~LocalRequired
    /\ snapshot.sessionVariable.disableColocateJoin /\ ~snapshot.disable_colocate_join
    /\ ~disable_colocate_join /\ ScansOfTwoTables(<<1>>, <<3>>) /\ SameStableGroup
    /\ groupExpression.op.joinHint = ""
    /\ outputInputProps = <<Broadcast, Shuffle(<<1>>, <<3>>), BucketShuffle(<<1>>, <<3>>)>>

(***************************************************************************)
(* C7 as claimed: a hash aggregate with no grouping columns returns        *)
(* exactly one alternative, output and child requirement both Gather       *)
(* without limit, for every phase, split flag, child limit, agg stage,     *)
(* single-instance fact and required property.                             *)
(***************************************************************************)
ScalarAggregateCalled ==
    AggregateCalled /\ groupExpression.op.partitionByColumns = <<>>

C7_Original ==
    ScalarAggregateCalled =>
        /\ status = "returned"
        /\ outputInputProps = <<Pair(Gather, <<Gather>>)>>

(***************************************************************************)
(* C7 amended: a hash aggregate with no grouping columns returns exactly   *)
(* the alternative (Gather, [Gather]) when the requirement is not local,   *)
(* the aggregate is not of the LOCAL phase, and it is not an unsplit       *)
(* GLOBAL aggregate that runs in one instance at agg stage 0 or whose      *)
(* child has a limit.                                                      *)
(***************************************************************************)
C7_ScalarAggregateGather ==
    (/\ ScalarAggregateCalled
     /\ ~LocalRequired
     /\ groupExpression.op.type # "LOCAL"
     /\ ~(/\ groupExpression.op.type = "GLOBAL" /\ ~groupExpression.op.isSplit
          /\ \/ groupExpression.children[1].hasLimit
             \/ (groupExpression.oneInstance /\
                 snapshot.sessionVariable.newPlannerAggStage = 0))) =>
        /\ status = "returned"
        /\ outputInputProps = <<Pair(Gather, <<Gather>>)>>

C7_Witness ==
    /\ ScalarAggregateCalled /\ ~LocalRequired
    /\ groupExpression.op.type = "DISTINCT_GLOBAL"
    /\ groupExpression.children[1].hasLimit
    /\ groupExpression.oneInstance
    /\ snapshot.sessionVariable.newPlannerAggStage = 0
    /\ outputInputProps = <<Pair(Gather, <<Gather>>)>>

(***************************************************************************)
(* C10 as claimed: two calls with the same operator, required property,    *)
(* plan view and colocation metadata return equal lists, whatever          *)
(* Config.disable_colocate_join, the session variables and the earlier     *)
(* calls on the deriver are.                                               *)
(***************************************************************************)
SameCallAgain ==
    /\ status = "returned" /\ status' = "returned"
    /\ calls' = calls + 1
    /\ requirements' = requirements /\ groupExpression' = groupExpression
    /\ taskContext' = taskContext /\ colocateIndex' = colocateIndex

RunAlone(req, expr) ==
    Accept(req, expr, taskContext.allScanOperators, colocateIndex,
           disable_colocate_join, sessionVariable).props

C11_Original ==
    \A t \in DOMAIN threads :
        threads[t].pc = "done" =>
            threads[t].result = RunAlone(threads[t].requirements,
                                         threads[t].groupExpression)

(***************************************************************************)
(* C12 as claimed: for every right join, full outer join and join with a   *)
(* SHUFFLE hint, whatever the child limits and hints, no alternative       *)
(* returned has a Replicated right child.                                  *)
(***************************************************************************)
C12_Case ==
    /\ JoinCalled /\ status = "returned"
    /\ \/ JoinType \in {"RIGHT_OUTER_JOIN", "FULL_OUTER_JOIN"}
       \/ HintIs("SHUFFLE")
NoReplicatedRight ==
    \A i \in 1..Len(outputInputProps) :
        ~IsReplicated(outputInputProps[i].second[2].distribution)

C12_Original == C12_Case => NoReplicatedRight

(***************************************************************************)
(* C12 amended: for a right join, a full outer join or a join with a       *)
(* SHUFFLE hint, no alternative returned has a Replicated right child,     *)
(* provided neither child has a limit, the hint is not BROADCAST, and the  *)
(* join is neither a cross join, nor a null-aware left anti join, nor an   *)
(* inner join without equality conjuncts; in each of those cases the only  *)
(* alternative derived is the broadcast one.                               *)
(***************************************************************************)
BroadcastOnlyCase ==
    \/ ~NoChildLimit
    \/ HintIs("BROADCAST")
    \/ JoinType \in {"CROSS_JOIN", "NULL_AWARE_LEFT_ANTI_JOIN"}
    \/ (JoinType = "INNER_JOIN" /\ EqualityConjuncts = <<>>)

C12_NoBroadcast ==
    C12_Case =>
        IF BroadcastOnlyCase
        THEN \A i \in 1..Len(outputInputProps) :
                 IsReplicated(outputInputProps[i].second[2].distribution)
        ELSE NoReplicatedRight

C12_Witness ==
    /\ C12_Case /\ ~BroadcastOnlyCase /\ ~LocalRequired
    /\ JoinType = "RIGHT_OUTER_JOIN" /\ HintIs("")
    /\ Len(outputInputProps) >= 2
    /\ NoReplicatedRight

(***************************************************************************)
(* C16 as claimed: in every alternative returned, output property and      *)
(* child requirements alike, a Hash distribution of source ShuffleJoin or  *)
(* ShuffleAgg has a non-empty column list, for joins of every type.        *)
(***************************************************************************)
ShuffleHasColumns(property) ==
    property.distribution.sourceType \in {"SHUFFLE_JOIN", "SHUFFLE_AGG"} =>
        property.distribution.columns # <<>>

C16_Original ==
    status = "returned" =>
        \A i \in 1..Len(outputInputProps) :
            /\ ShuffleHasColumns(outputInputProps[i].first)
            /\ \A k \in 1..Len(outputInputProps[i].second) :
                  ShuffleHasColumns(outputInputProps[i].second[k])

(***************************************************************************)
(* Vocabulary of the properties of the other operators.                    *)
(***************************************************************************)
Called(kinds) == status # "new" /\ groupExpression.op.kind \in kinds
OnlyChild == groupExpression.children[1]
RequirementOnly == DistributeRequirements(requirements)

(***************************************************************************)
(* C13 as claimed: each pass-through operator (project, filter, repeat,    *)
(* table function) returns, under an active local requirement, exactly one *)
(* alternative with the requirement on output and child; otherwise exactly *)
(* two: (requirement, [requirement]) then (EMPTY, [EMPTY]).                *)
(***************************************************************************)
PassThroughKinds == {"Project", "Filter", "Repeat", "TableFunction"}

C13_Original ==
    Called(PassThroughKinds) =>
        /\ status = "returned"
        /\ outputInputProps =
               IF LocalRequired
               THEN <<Pair(requirements, <<requirements>>)>>
               ELSE <<Pair(requirements, <<requirements>>), Pair(EMPTY, <<EMPTY>>)>>

(***************************************************************************)
(* C13 amended: under an active local requirement each pass-through        *)
(* operator returns exactly one alternative, with the requirement's        *)
(* distribution (without its sort) on output and child.  Otherwise a       *)
(* project returns exactly two alternatives, (the requirement's            *)
(* distribution, the same on the child) then (EMPTY, [EMPTY]), and a       *)
(* filter, repeat or table function returns exactly (EMPTY, [EMPTY]).      *)
(***************************************************************************)
C13_PassThrough ==
    Called(PassThroughKinds) =>
        /\ status = "returned"
        /\ outputInputProps =
               IF LocalRequired
               THEN <<Pair(RequirementOnly, <<RequirementOnly>>)>>
               ELSE IF groupExpression.op.kind = "Project"
               THEN <<Pair(RequirementOnly, <<RequirementOnly>>), Pair(EMPTY, <<EMPTY>>)>>
               ELSE <<Pair(EMPTY, <<EMPTY>>)>>

C13_Witness ==
    /\ Called({"Project"}) /\ ~LocalRequired
    /\ requirements.sort # <<>>
    /\ Len(outputInputProps) = 2
    /\ outputInputProps[1].first.sort = <<>>
    /\ IsGather(outputInputProps[1].first.distribution)

C13_WitnessFilter ==
    /\ Called({"Filter"}) /\ ~LocalRequired
    /\ requirements # EMPTY
    /\ outputInputProps = <<Pair(EMPTY, <<EMPTY>>)>>

(***************************************************************************)
(* C14 as claimed: a split TopN in its final phase, with no active local   *)
(* requirement, returns exactly one alternative: output Gather plus the    *)
(* sort order, child Gather(limit L) when the child has the limit L and    *)
(* EMPTY otherwise.                                                        *)
(***************************************************************************)
C14_Case ==
    /\ Called({"TopN"}) /\ ~LocalRequired
    /\ groupExpression.op.sortPhase = "FINAL" /\ groupExpression.op.isSplit

C14_Original ==
    C14_Case =>
        /\ status = "returned"
        /\ outputInputProps =
               <<Pair(PropertySet(GatherSpec(-1), groupExpression.op.orderSpec),
                      <<IF OnlyChild.hasLimit
                        THEN PropertySet(GatherSpec(OnlyChild.limit), EmptySort)
                        ELSE EMPTY>>)>>

(***************************************************************************)
(* C14 amended: a split TopN in its final phase, with no active local      *)
(* requirement, returns exactly one alternative: output Gather plus the    *)
(* sort order, child EMPTY whether or not the child has a limit (the       *)
(* child's limit is gathered only below a final TopN that is not split).   *)
(***************************************************************************)
C14_SplitTopN ==
    C14_Case =>
        /\ status = "returned"
        /\ outputInputProps =
               <<Pair(PropertySet(GatherSpec(-1), groupExpression.op.orderSpec),
                      <<EMPTY>>)>>

C14_Witness ==
    /\ C14_Case /\ OnlyChild.hasLimit
    /\ outputInputProps[1].second = <<EMPTY>>
    /\ IsGather(outputInputProps[1].first.distribution)

(***************************************************************************)
(* C17: a set operation (union, except, intersect) with n children returns *)
(* the empty list under an active local requirement; otherwise exactly one *)
(* alternative, output EMPTY, with n child requirements, the i-th          *)
(* Gather(limit L_i) when child i has the limit L_i and EMPTY otherwise.   *)
(***************************************************************************)
C17_SetOperation ==
    Called({"Union", "Except", "Intersect"}) =>
        /\ status = "returned"
        /\ IF LocalRequired THEN outputInputProps = <<>>
           ELSE /\ Len(outputInputProps) = 1
                /\ outputInputProps[1].first = EMPTY
                /\ Len(outputInputProps[1].second) = Len(groupExpression.children)
                /\ \A i \in 1..Len(groupExpression.children) :
                      outputInputProps[1].second[i] =
                          IF groupExpression.children[i].hasLimit
                          THEN PropertySet(GatherSpec(groupExpression.children[i].limit),
                                           EmptySort)
                          ELSE EMPTY

C17_Witness ==
    /\ Called({"Except"}) /\ ~LocalRequired
    /\ Len(groupExpression.children) = 3
    /\ groupExpression.children[2].hasLimit /\ ~groupExpression.children[3].hasLimit
    /\ IsGather(outputInputProps[1].second[2].distribution)
    /\ outputInputProps[1].second[3] = EMPTY

(***************************************************************************)
(* C18 as claimed: an olap scan with more than one selected partition of a *)
(* table that is not a colocate table returns, whatever the required       *)
(* property, only alternatives with output distribution Any and an empty   *)
(* child list; none has a Hash output distribution.                        *)
(***************************************************************************)
C18_Case ==
    /\ Called({"OlapScan"})
    /\ DistributionUnknown(groupExpression.op, colocateIndex)

C18_Original ==
    C18_Case =>
        \A i \in 1..Len(outputInputProps) :
            /\ outputInputProps[i].first.distribution = AnySpec
            /\ outputInputProps[i].second = <<>>

(***************************************************************************)
(* C19: an olap scan under an active requirement Hash(Local, R) returns a  *)
(* non-empty list, which then is exactly one alternative with an empty     *)
(* child list, if and only if R holds every bucket column of the scan;     *)
(* with no local requirement, and at most one selected partition or a      *)
(* colocate table, it returns exactly one alternative, whose output is the *)
(* bucket distribution of the table.                                       *)
(***************************************************************************)
BucketColumns == groupExpression.op.distributionSpec.columns

C19_OlapScan ==
    Called({"OlapScan"}) =>
        /\ status = "returned"
        /\ LocalRequired =>
              /\ outputInputProps # <<>> <=>
                     Range(BucketColumns) \subseteq Range(requirements.distribution.columns)
              /\ outputInputProps # <<>> =>
                     /\ Len(outputInputProps) = 1
                     /\ outputInputProps[1].second = <<>>
        /\ (~LocalRequired /\ ~C18_Case) =>
              outputInputProps =
                  <<Pair(PropertySet(HashSpec(BucketColumns, "LOCAL"), EmptySort), <<>>)>>

C19_Witness ==
    /\ Called({"OlapScan"}) /\ LocalRequired
    /\ BucketColumns = <<2, 1>>
    /\ requirements.distribution.columns = <<1, 2>>
    /\ Len(outputInputProps) = 1

C19_WitnessEmpty ==
    /\ Called({"OlapScan"}) /\ LocalRequired
    /\ BucketColumns = <<1, 2>>
    /\ requirements.distribution.columns = <<1>>
    /\ outputInputProps = <<>>

(***************************************************************************)
(* C20 as claimed: an analytic operator with no active local requirement   *)
(* returns, without partition columns, exactly one alternative with Gather *)
(* plus the combined sort on output and child; otherwise exactly two:      *)
(* Hash(ShuffleAgg, partition columns) then Hash(Local, partition columns),*)
(* each with the combined sort on both sides.  The combined sort has the   *)
(* partition columns first (ascending, nulls first), then the order-by     *)
(* columns not already present, and no column twice.                       *)
(***************************************************************************)
C20_Case == Called({"Analytic"}) /\ ~LocalRequired

PartitionCols == groupExpression.op.partitionExpressions

BothSides(distribution, sort) ==
    Pair(PropertySet(distribution, sort), <<PropertySet(distribution, sort)>>)

\* the order-by elements whose column is no partition column and is the
\* column of no earlier order-by element
KeptOrderBy ==
    LET orderBy == groupExpression.op.orderByElements
        Kept(k) == /\ \A i \in 1..Len(PartitionCols) : PartitionCols[i] # orderBy[k].column
                   /\ \A j \in 1..(k - 1) : orderBy[j].column # orderBy[k].column
        kept == SelectSeq([k \in 1..Len(orderBy) |-> k], LAMBDA k : Kept(k))
    IN [n \in 1..Len(kept) |-> orderBy[kept[n]]]

CombinedSort ==
    [i \in 1..Len(PartitionCols) |->
        [column |-> PartitionCols[i], ascending |-> TRUE, nullsFirst |-> TRUE]]
    \o KeptOrderBy

NoColumnTwice(sort) ==
    \A i, j \in 1..Len(sort) : sort[i].column = sort[j].column => i = j

C20_Alternatives ==
    outputInputProps =
        IF PartitionCols = <<>>
        THEN <<BothSides(GatherSpec(-1), CombinedSort)>>
        ELSE <<BothSides(HashSpec(PartitionCols, "SHUFFLE_AGG"), CombinedSort),
               BothSides(HashSpec(PartitionCols, "LOCAL"), CombinedSort)>>

C20_Original ==
    C20_Case =>
        /\ status = "returned"
        /\ C20_Alternatives
        /\ NoColumnTwice(CombinedSort)

(***************************************************************************)
(* C20 amended: the same alternatives; the combined sort has one ordering  *)
(* (ascending, nulls first) per partition expression, in order, then each  *)
(* order-by element whose column no earlier ordering has.  No column       *)
(* appears twice provided the partition expressions are distinct; a column *)
(* partitioned by twice is listed twice.                                   *)
(***************************************************************************)
C20_Analytic ==
    C20_Case =>
        /\ status = "returned"
        /\ C20_Alternatives
        /\ NoColumnTwice(PartitionOrderings(PartitionCols)) =>
               NoColumnTwice(CombinedSort)

C20_Witness ==
    /\ C20_Case
    /\ PartitionCols = <<2, 1>>
    /\ Len(groupExpression.op.orderByElements) = 2
    /\ Len(outputInputProps) = 2
    /\ Len(outputInputProps[2].first.sort) = 2
    /\ IsLocal(outputInputProps[2].first.distribution)

C20_WitnessTwice ==
    /\ C20_Case
    /\ PartitionCols = <<1, 1>>
    /\ ~NoColumnTwice(outputInputProps[1].first.sort)

(***************************************************************************)
(* C15 as claimed: for every operator kind and every required property, no *)
(* alternative of the returned list has an output property whose           *)
(* distribution is Hash(Local, .).                                         *)
(***************************************************************************)
LocalOutput(alt) == IsLocal(alt.first.distribution)

C15_WitnessEcho ==
    /\ Called({"Project"}) /\ LocalRequired
    /\ Len(outputInputProps) = 1
    /\ LocalOutput(outputInputProps[1])

(***************************************************************************)
(* C21: a hash aggregate that is not of the LOCAL phase, has grouping      *)
(* columns G, and is taken neither by the single-instance branch nor by    *)
(* the child-limit branch returns, with no active local requirement,       *)
(* exactly (Hash(ShuffleAgg, G), [same]) then (Hash(Local, G), [same]).    *)
(* Under an active requirement Hash(Local, R) only the local alternative   *)
(* can remain (its child requirement Hash(Local, G) kept, its output the   *)
(* requirement's distribution), and it remains if and only if R holds      *)
(* every column of G.                                                      *)
(***************************************************************************)
GroupingColumns == groupExpression.op.partitionByColumns

C21_Case ==
    /\ AggregateCalled
    /\ groupExpression.op.type # "LOCAL"
    /\ GroupingColumns # <<>>
    /\ ~(/\ groupExpression.op.type = "GLOBAL" /\ ~groupExpression.op.isSplit
         /\ \/ groupExpression.children[1].hasLimit
            \/ (groupExpression.oneInstance /\
                snapshot.sessionVariable.newPlannerAggStage = 0))

HashOnBoth(columns, sourceType) ==
    Pair(PropertySet(HashSpec(columns, sourceType), EmptySort),
         <<PropertySet(HashSpec(columns, sourceType), EmptySort)>>)

C21_GroupingAggregate ==
    C21_Case =>
        /\ status = "returned"
        /\ ~LocalRequired =>
              outputInputProps = <<HashOnBoth(GroupingColumns, "SHUFFLE_AGG"),
                                   HashOnBoth(GroupingColumns, "LOCAL")>>
        /\ LocalRequired =>
              /\ outputInputProps # <<>> <=>
                     Range(GroupingColumns) \subseteq
                         Range(requirements.distribution.columns)
              /\ outputInputProps # <<>> =>
                     outputInputProps =
                         <<Pair(RequirementOnly,
                                HashOnBoth(GroupingColumns, "LOCAL").second)>>

C21_Witness ==
    /\ C21_Case /\ LocalRequired
    /\ GroupingColumns = <<1>>
    /\ requirements.distribution.columns = <<1, 2>>
    /\ Len(outputInputProps) = 1
    /\ outputInputProps[1].second[1].distribution = HashSpec(<<1>>, "LOCAL")

C21_WitnessPruned ==
    /\ C21_Case /\ LocalRequired
    /\ GroupingColumns = <<1, 2>>
    /\ requirements.distribution.columns = <<1>>
    /\ outputInputProps = <<>>

(***************************************************************************)
(* Vocabulary of the colocate step: the scans the shuffle columns of the   *)
(* last join resolve to.                                                   *)
(***************************************************************************)
LeftResolved == FindLogicalOlapScanOperator(OnColumns.left, taskContext.allScanOperators)
RightResolved == FindLogicalOlapScanOperator(OnColumns.right, taskContext.allScanOperators)
BothResolved == LeftResolved.present /\ RightResolved.present

\* the last join went past the broadcast and shuffle steps to the colocate step
ColocateStepReached ==
    /\ JoinCalled /\ NoChildLimit
    /\ ~HintIs("BROADCAST") /\ ~HintIs("SHUFFLE") /\ ~HintIs("BUCKET")
    /\ JoinType \notin {"CROSS_JOIN", "NULL_AWARE_LEFT_ANTI_JOIN"}
    /\ ~(JoinType = "INNER_JOIN" /\ EqualityConjuncts = <<>>)
    /\ AllColumnToColumn
    /\ ColocateEnabledAtCall

ResolvedInOneGroup ==
    /\ BothResolved
    /\ colocateIndex.table2Group[LeftResolved.scan.tableId] # "none"
    /\ colocateIndex.table2Group[LeftResolved.scan.tableId] =
           colocateIndex.table2Group[RightResolved.scan.tableId]

(***************************************************************************)
(* C22 as claimed: when the colocate step finds the two resolved scans in  *)
(* one colocation group with different numbers of bucket columns, the call *)
(* returns normally and its list has no colocate alternative.              *)
(***************************************************************************)
C22_Case ==
    /\ ColocateStepReached
    /\ ResolvedInOneGroup
    /\ Len(LeftResolved.scan.distributionColumns) #
           Len(RightResolved.scan.distributionColumns)

C22_Original ==
    C22_Case =>
        /\ status = "returned"
        /\ \A i \in 1..Len(outputInputProps) :
              ~IsColocateAlternative(outputInputProps[i])

(***************************************************************************)
(* C23 as claimed: in a self join (both sides resolve to scans of one      *)
(* table that is in no colocation group) a colocate alternative is in the  *)
(* returned list only if both scans have exactly one selected partition,   *)
(* the same one; not with zero partitions, several, or different ones.     *)
(***************************************************************************)
SelfJoinResolved ==
    /\ BothResolved
    /\ LeftResolved.scan.tableId = RightResolved.scan.tableId
    /\ colocateIndex.table2Group[LeftResolved.scan.tableId] = "none"

HasColocateAlternative ==
    \E i \in 1..Len(outputInputProps) : IsColocateAlternative(outputInputProps[i])

C23_Original ==
    (JoinCalled /\ SelfJoinResolved /\ HasColocateAlternative) =>
        /\ Cardinality(LeftResolved.scan.selectedPartitionId) = 1
        /\ LeftResolved.scan.selectedPartitionId = RightResolved.scan.selectedPartitionId

(***************************************************************************)
(* C24 as claimed: every colocate alternative of the returned list, of the *)
(* self-join branch or of the colocation-group branch, requires of each    *)
(* child Hash(Local) over the bucket columns of the scan that side         *)
(* resolves to, and the shuffle columns of each side hold all of them.     *)
(***************************************************************************)
OverBucketColumns(alt) ==
    /\ alt.second = Colocate(LeftResolved.scan.distributionColumns,
                             RightResolved.scan.distributionColumns).second
    /\ Range(LeftResolved.scan.distributionColumns) \subseteq Range(OnColumns.left)
    /\ Range(RightResolved.scan.distributionColumns) \subseteq Range(OnColumns.right)

C24_Original ==
    JoinCalled =>
        \A i \in 1..Len(outputInputProps) :
            IsColocateAlternative(outputInputProps[i]) =>
                BothResolved /\ OverBucketColumns(outputInputProps[i])

(***************************************************************************)
(* C24 amended: a colocate alternative of the colocation-group branch is   *)
(* as claimed; a colocate alternative of the self-join branch requires of  *)
(* each child Hash(Local) over the join's shuffle columns of that side,    *)
(* whatever the bucket columns of the scans are.                           *)
(***************************************************************************)
C24_ColocateColumns ==
    JoinCalled =>
        \A i \in 1..Len(outputInputProps) :
            IsColocateAlternative(outputInputProps[i]) =>
                /\ BothResolved
                /\ IF SelfJoinResolved
                   THEN outputInputProps[i].second =
                            Colocate(OnColumns.left, OnColumns.right).second
                   ELSE /\ ResolvedInOneGroup
                        /\ OverBucketColumns(outputInputProps[i])

C24_Witness ==
    /\ JoinCalled /\ HasColocateAlternative
    /\ ~SelfJoinResolved
    /\ LeftResolved.scan.distributionColumns = <<1, 2>>
    /\ RightResolved.scan.distributionColumns = <<3, 4>>
    /\ OnColumns.left = <<2, 1>>

C24_WitnessSelf ==
    /\ JoinCalled /\ HasColocateAlternative
    /\ SelfJoinResolved
    /\ LeftResolved.scan.distributionColumns = <<1>>
    /\ OnColumns.left = <<2>>

(***************************************************************************)
(* C25: a bucket-shuffle alternative (left Hash(Local, B), right           *)
(* Hash(ShuffleJoin, C)) is in the returned list only when the join is no  *)
(* cross join and the left shuffle columns resolve to a scan with exactly  *)
(* one selected partition whose bucket columns B are all left shuffle      *)
(* columns; then C is as long as B and C[i] is the right shuffle column at *)
(* the position of B[i] among the left shuffle columns, a position that    *)
(* always exists in both lists.                                            *)
(***************************************************************************)
IsBucketShuffleAlternative(alt) ==
    /\ IsLocal(alt.second[1].distribution)
    /\ IsShuffle(alt.second[2].distribution)
    /\ alt.second[2].distribution.sourceType = "SHUFFLE_JOIN"

PositionIn(list, x) == CHOOSE i \in 1..Len(list) : list[i] = x /\ \A j \in 1..(i - 1) : list[j] # x

C25_BucketShuffle ==
    JoinCalled =>
        \A n \in 1..Len(outputInputProps) :
            LET alt == outputInputProps[n]
                B == alt.second[1].distribution.columns
                C == alt.second[2].distribution.columns
            IN IsBucketShuffleAlternative(alt) =>
                  /\ JoinType # "CROSS_JOIN"
                  /\ LeftResolved.present
                  /\ Cardinality(LeftResolved.scan.selectedPartitionId) = 1
                  /\ B = LeftResolved.scan.distributionColumns
                  /\ Range(B) \subseteq Range(OnColumns.left)
                  /\ Len(C) = Len(B)
                  /\ Len(OnColumns.left) = Len(OnColumns.right)
                  /\ \A i \in 1..Len(B) :
                        /\ \E k \in 1..Len(OnColumns.right) : OnColumns.left[k] = B[i]
                        /\ C[i] = OnColumns.right[PositionIn(OnColumns.left, B[i])]

C25_Witness ==
    /\ JoinCalled
    /\ OnColumns.left = <<2, 1>> /\ OnColumns.right = <<4, 3>>
    /\ \E n \in 1..Len(outputInputProps) :
          /\ IsBucketShuffleAlternative(outputInputProps[n])
          /\ outputInputProps[n].second[1].distribution.columns = <<1, 2>>
          /\ outputInputProps[n].second[2].distribution.columns = <<3, 4>>

(***************************************************************************)
(* C26: when an equality conjunct of the join is not a comparison of two   *)
(* columns, or the join has the SHUFFLE hint, and no local requirement is  *)
(* active, no alternative of the returned list requires Hash(Local, .) of  *)
(* a child; and under the BUCKET hint the list has no colocate             *)
(* alternative.                                                            *)
(***************************************************************************)
C26_Case ==
    /\ JoinCalled /\ ~LocalRequired
    /\ ~AllColumnToColumn \/ HintIs("SHUFFLE")

NoLocalChild(alt) ==
    \A k \in 1..Len(alt.second) : ~IsLocal(alt.second[k].distribution)

C26_NoLocalStep ==
    /\ C26_Case =>
          /\ status = "returned"
          /\ \A i \in 1..Len(outputInputProps) : NoLocalChild(outputInputProps[i])
    /\ (JoinCalled /\ HintIs("BUCKET")) => ~HasColocateAlternative

C26_Witness ==
    /\ C26_Case /\ NoChildLimit
    /\ JoinType = "INNER_JOIN" /\ groupExpression.op.joinHint = ""
    /\ Len(EqualityConjuncts) = 2
    /\ EqualityConjuncts[1].lhs.isColumnRef /\ EqualityConjuncts[1].rhs.isColumnRef
    /\ ColocateEnabledAtCall /\ SameStableGroup
    /\ outputInputProps = <<Broadcast, Shuffle(OnColumns.left, OnColumns.right)>>

C26_WitnessBucket ==
    /\ JoinCalled /\ HintIs("BUCKET") /\ ~LocalRequired
    /\ ColocateEnabledAtCall /\ SameStableGroup
    /\ \E i \in 1..Len(outputInputProps) : IsBucketShuffleAlternative(outputInputProps[i])

(***************************************************************************)
(* C27: in every alternative of a returned list the number of child        *)
(* requirements is the operator's number of children: 2 for a join, 1 for  *)
(* aggregate, TopN, analytic, project, filter, repeat, table function and  *)
(* assert-one-row, 0 for scans and values, n for a set operation of n      *)
(* children; also in the alternatives the local-requirement filter has     *)
(* rewritten.                                                              *)
(***************************************************************************)
ArityOf(kind) ==
    CASE kind = "HashJoin" -> 2
      [] kind \in {"HashAggregate", "TopN", "Analytic", "Project", "Filter", "Repeat",
                   "TableFunction", "AssertOneRow"} -> 1
      [] kind \in {"OlapScan", "HiveScan", "SchemaScan", "MysqlScan", "EsScan",
                   "Values"} -> 0
      [] OTHER -> Len(groupExpression.children)

C27_Arity ==
    status = "returned" =>
        /\ Len(groupExpression.children) = ArityOf(groupExpression.op.kind)
        /\ \A i \in 1..Len(outputInputProps) :
              Len(outputInputProps[i].second) = ArityOf(groupExpression.op.kind)

C27_Witness ==
    /\ JoinCalled /\ status = "returned" /\ LocalRequired
    /\ Len(outputInputProps) >= 2
    /\ outputInputProps[1].second[1] = RequirementOnly
    /\ IsReplicated(outputInputProps[1].second[2].distribution)
    /\ IsLocal(outputInputProps[2].second[1].distribution)

C27_WitnessSet ==
    /\ Called({"Union"}) /\ status = "returned"
    /\ Len(groupExpression.children) = 3
    /\ Len(outputInputProps) = 1
    /\ Len(outputInputProps[1].second) = 3

(***************************************************************************)
(* C28: a join under an active requirement Hash(Local, R) whose columns    *)
(* all come from the right child returns only alternatives whose right     *)
(* child requirement is Hash(Local, cols) with cols within R: the colocate *)
(* alternative, its child requirements as the colocate step made them, its *)
(* output the requirement's distribution.  The broadcast, shuffle and      *)
(* bucket-shuffle alternatives are never in the list.                      *)
(***************************************************************************)
C28_Case ==
    /\ JoinCalled /\ LocalRequired
    /\ RequiredColumns \subseteq RightChild.outputColumns
    /\ ~(RequiredColumns \subseteq LeftChild.outputColumns)

C28_RightLocal ==
    C28_Case =>
        /\ status = "returned"
        /\ \A i \in 1..Len(outputInputProps) :
              LET alt == outputInputProps[i] IN
              /\ alt.first = RequirementOnly
              /\ IsLocal(alt.second[2].distribution)
              /\ Range(alt.second[2].distribution.columns) \subseteq RequiredColumns
              /\ IsColocateAlternative(alt)
              /\ ~IsReplicated(alt.second[2].distribution)
              /\ ~IsBucketShuffleAlternative(alt)
              /\ alt.second =
                     IF SelfJoinResolved
                     THEN Colocate(OnColumns.left, OnColumns.right).second
                     ELSE Colocate(LeftResolved.scan.distributionColumns,
                                   RightResolved.scan.distributionColumns).second

C28_Witness ==
    /\ C28_Case
    /\ requirements.distribution.columns = <<3, 4>>
    /\ Len(outputInputProps) = 1
    /\ outputInputProps[1].second[2].distribution.columns = <<3>>
    /\ outputInputProps[1].second[1].distribution.columns = <<1>>
    /\ JoinType = "INNER_JOIN"

C28_WitnessPruned ==
    /\ C28_Case /\ NoChildLimit
    /\ requirements.distribution.columns = <<3>>
    /\ RightResolved.present /\ RightResolved.scan.distributionColumns = <<3, 4>>
    /\ JoinType = "INNER_JOIN" /\ Len(OnColumns.left) = 2
    /\ outputInputProps = <<>>

(***************************************************************************)
(* C29 as claimed: after any interleaving of create_sender calls for one   *)
(* query id, with no cancel of that id, every caller has received the same *)
(* control block, and it is the one registered in the buffer map under the *)
(* id.                                                                     *)
(***************************************************************************)
NeverCancelled(query_id) ==
    \A b \in 1..Len(blocks) : blocks[b].query_id = query_id => ~blocks[b].is_cancelled

ReturnedSender(t) == threads.senders[t].pc = "done"

C29_Original ==
    \A t \in DOMAIN threads.senders :
        (ReturnedSender(t) /\ NeverCancelled(threads.senders[t].query_id)) =>
            /\ threads.senders[t].query_id \in DOMAIN buffer_map
            /\ threads.senders[t].sender = buffer_map[threads.senders[t].query_id]

(***************************************************************************)
(* C30 as claimed: a query id registered with cancel_at_time(t, id) is     *)
(* never cancelled by the cancel thread while the time is earlier than t.  *)
(***************************************************************************)
C30_Original ==
    \A b \in 1..Len(blocks) :
        (blocks[b].is_cancelled /\ blocks[b].query_id \in DOMAIN registered) =>
            blocks[b].cancelled_at >= registered[blocks[b].query_id]

====
